---- MODULE Spec2Model ----
(***************************************************************************)
(* Verification model of the arbitrage opportunity engine:                 *)
(*   - the pool functions of src/src/Arbitrage.ts (getOutputAmount,        *)
(*     calculateOptimalDelta and the per-pool arbitrage closure),          *)
(*   - the multi-hop path search of src/unnamed/part_000,                  *)
(*   - the websocket event handlers of src/src/websocketmanager.ts,        *)
(*   - the bound-constrained quasi-Newton loop of                          *)
(*     src/src/optimization/HybridOptimizer.ts,                            *)
(*   - the pairwise detector of src/src/Arbitrage.ts,                      *)
(*   - the bundle execution loop of src/src/Arbitrage.ts,                  *)
(*   - single evaluations of the optimizer's dual objective,               *)
(*   - the bounds search of the optimizer, pass by pass.                   *)
(* Amounts are BigNumber values in the source (arbitrary precision, wei).  *)
(* TLC's integers are 32 bits wide, so every amount of the model is a      *)
(* scaled-down stand-in; the scale factors are the bounds named below.     *)
(***************************************************************************)
EXTENDS Integers, Sequences, FiniteSets, TLC

VARIABLES
    \* ---- pool functions (CFMM.getOutputAmount, cfmm.arbitrage) ----
    cfmmReserves,   \* <<reserve0, reserve1>> of the pool under test
    quoted,         \* amountIn -> result of getOutputAmount(amountIn, reserve0, reserve1)
    arbCall,        \* the last cfmm.arbitrage call: [prices, res] (or NoCall)
    \* ---- multi-hop search (MultiHopArbitrage.findArbitrageOpportunities) ----
    hopMarkets,     \* the pools: sequence of [tokens, reserves]
    hopFailing,     \* index of the pool whose getTokensOut throws (0: none)
    maxPaths,       \* the maxPaths argument
    hopPc,          \* "idle" | "call" | "loop" | "done" | "failed"
    stack,          \* findPaths activations: [token, amount, depth, idx]
    visited,        \* the visited token set
    currentPath,    \* pools pushed so far (indices into hopMarkets)
    tokenPath,      \* tokens pushed so far
    opportunities,  \* cycles recorded so far
    hopResult,      \* the list findArbitrageOpportunities returned
    \* ---- websocket manager (EnhancedWebSocketManager) ----
    wsHandlers,     \* one entry per message received: [kind, pc]
    \* ---- dual optimizer (HybridOptimizer.optimize) ----
    optCfmms,       \* this.cfmms: sequence of reserve pairs
    optOptions,     \* this.options: [maxIterations, toleranceWei, memory]
    optPc,          \* "idle" | "loop" | "returned" | "threw"
    optV,           \* v
    optGrad,        \* currentGrad
    optValue,       \* currentValue
    optBounds,      \* bounds: [lower, upper]
    optMemory,      \* memory: sequence of [s, y, rho], oldest first
    optIteration,   \* iteration
    optConverged,   \* converged
    optResult,      \* the OptimizationResult returned (or NoResult)
    optPushed,      \* history: number of pairs pushed onto the memory so far
    optAccepted,    \* history: the triples pushed onto the memory so far, in order
    optSeen,        \* history: the reserves the evaluations of the run have read
    \* ---- optimizer-based detector (Arbitrage.evaluateMarkets) ----
    evalThreshold,  \* this.thresholds.minProfitThreshold (may be undefined)
    evalPc,         \* "idle" | "returned"
    evalConverted,  \* history: convertOptimizationResult was called on the result
    evalOpportunities, \* the list evaluateMarkets returned
    \* ---- pairwise detector (Arbitrage.findArbitrageTrades) ----
    pairMarkets,    \* the pools: sequence of [tokens, reserves, balanceFails]
    pairKeys,       \* the keys of marketsByToken, in insertion order
    pairThresholds, \* this.thresholds
    pairCost,       \* what getPriceImpact and getTradingFee of a pool give: Ok or Throw
    pairPc,         \* "idle" | "loop" | "returned" | "threw"
    pairRefPrices,  \* referencePrices
    pairTodo,       \* the (key, i, j) passes of the pair loops still to run
    crossedMarkets, \* crossedMarkets: the opportunities pushed so far
    pairResult,     \* the list findArbitrageTrades returned
    pairError,      \* what findArbitrageTrades threw ("" when nothing)
    pairFirst,      \* outcome of an earlier call on the same snapshot, if any
    \* ---- bundle execution (Arbitrage.executeBundleWithRetry) ----
    bundleMaxRetries, \* this.MAX_RETRIES (may be undefined)
    bundleThreshold,  \* this.thresholds.minProfitThreshold (may be undefined)
    bundlePc,       \* "idle" | "simulate" | "send" | "returned" | "threw"
    bundleI,        \* the loop counter i
    bundleLog,      \* history: the relay calls made, [call, attempt, ok, profit, err]
    bundleError,    \* the error caught last ("" when none)
    bundleResponse, \* what executeBundleWithRetry returned, if it returned
    \* ---- one evaluation of the dual objective (HybridOptimizer.dualObjective) ----
    dualCfmms,      \* this.cfmms: sequence of reserve pairs
    dualV,          \* the argument v
    dualOut,        \* what the call gave: the empty sequence before the call
    \* ---- the bounds search (HybridOptimizer.findActiveInterval) ----
    searchCfmms,    \* this.cfmms: sequence of reserve pairs
    searchV,        \* the argument v
    searchPc,       \* "idle" | "search" | "returned"
    searchI,        \* the coordinate under search (1-based)
    searchLeft,     \* left
    searchRight,    \* right
    searchLower,    \* lower
    searchUpper,    \* upper
    searchLast,     \* history: the last pass, [outcome, value, mid, left, right]
    \* ---- one call of calculateOptimalVolume (Arbitrage.calculateOptimalVolume) ----
    volumeArgs,     \* [profit, cost, threshold, availableLiquidityBuy, availableLiquiditySell]
    volumePc,       \* "idle" | "searched" | "returned" | "threw"
    volumeFound,    \* optimalVolume after the binary search
    volumeOut,      \* the volume returned
    \* the reconnection of the websocket manager
    connSockets,        \* every WebSocket created, each with its state
    reconnectAttempts,  \* EnhancedWebSocketManager.reconnectAttempts
    connTimers,         \* setTimeout callbacks of handleReconnection not yet run
    connExited,         \* process.exit(1) was called
    connFailed,         \* reconnections failed since the last open (history)
    \* one call of fetchWETHBalance
    fetchRetries,   \* the retries argument
    fetchOutcomes,  \* per balanceOf call: the balance it resolves with, or Null when it rejects
    fetchAttempt,   \* the loop variable attempt
    fetchCalls,     \* balanceOf calls made (history)
    fetchPc,        \* "idle" | "loop" | "delay" | "returned"
    fetchResult,    \* what the call resolved with: Null or <<balance>>
    \* one call of takeCrossedMarkets
    takeMarkets,      \* number of opportunities in the markets argument
    takeMaxAttempts,  \* the maxAttempts argument
    takeMarket,       \* position of the outer loop: index of the opportunity
    takeAttempt,      \* the loop variable attempt
    takePc,           \* "idle" | "execute" | "wait" | "delay" | "done"
    takeCalls,        \* per opportunity: executeArbitrageTrade calls made (history)
    takeReturned,     \* opportunities executeArbitrageTrade returned a transaction for (history)
    takeAgain         \* opportunities executed again after a transaction was returned (history)

poolVars == <<cfmmReserves, quoted, arbCall>>
hopVars == <<hopMarkets, hopFailing, maxPaths, hopPc, stack, visited,
             currentPath, tokenPath, opportunities, hopResult>>
wsVars == <<wsHandlers>>
optVars == <<optCfmms, optOptions, optPc, optV, optGrad, optValue, optBounds,
             optMemory, optIteration, optConverged, optResult, optPushed,
             optAccepted, optSeen>>
evalVars == <<evalThreshold, evalPc, evalConverted, evalOpportunities>>
pairVars == <<pairMarkets, pairKeys, pairThresholds, pairCost, pairPc, pairRefPrices,
              pairTodo, crossedMarkets, pairResult, pairError, pairFirst>>
bundleVars == <<bundleMaxRetries, bundleThreshold, bundlePc, bundleI, bundleLog, bundleError,
                bundleResponse>>
dualVars == <<dualCfmms, dualV, dualOut>>
searchVars == <<searchCfmms, searchV, searchPc, searchI, searchLeft, searchRight, searchLower,
                searchUpper, searchLast>>
volumeVars == <<volumeArgs, volumePc, volumeFound, volumeOut>>
connVars == <<connSockets, reconnectAttempts, connTimers, connExited, connFailed>>
fetchVars == <<fetchRetries, fetchOutcomes, fetchAttempt, fetchCalls, fetchPc, fetchResult>>
takeVars == <<takeMarkets, takeMaxAttempts, takeMarket, takeAttempt, takePc, takeCalls,
              takeReturned, takeAgain>>
vars == <<poolVars, hopVars, wsVars, optVars, evalVars, pairVars, bundleVars, dualVars,
          searchVars,
          volumeVars,
          connVars,
          fetchVars,
          takeVars>>

(***************************************************************************)
(* BigNumber arithmetic                                                    *)
(***************************************************************************)
Abs(a) == IF a < 0 THEN -a ELSE a

\* BigNumber.div: integer division truncating toward zero (b # 0).
TDiv(a, b) ==
    LET q == Abs(a) \div Abs(b) IN IF (a < 0) # (b < 0) THEN -q ELSE q

Min2(a, b) == IF a <= b THEN a ELSE b
Max2(a, b) == IF a >= b THEN a ELSE b

RECURSIVE SumSeq(_)
SumSeq(s) == IF s = <<>> THEN 0 ELSE Head(s) + SumSeq(Tail(s))

\* Results of calls that may throw.
Ok(x) == [ok |-> TRUE, err |-> "", val |-> x]
Throw(e) == [ok |-> FALSE, err |-> e, val |-> 0]

\* a value that may be missing is a sequence of at most one element
Null == <<>>
Undefined == <<>>

(***************************************************************************)
(* Bounds of the pool-function model                                       *)
(***************************************************************************)
\* reserves of the pool under test range over 0..MaxReserve
MaxReserve == 10
\* amounts quoted range over 0..MaxAmountIn
MaxAmountIn == 3
\* prices handed to cfmm.arbitrage range over 0..MaxPrice
MaxPrice == 4
\* stand-in for the 10^18 fixed-point scale ('1000000000000000000')
ETHER == 2

(***************************************************************************)
(* CFMM.getOutputAmount  (src/src/Arbitrage.ts:42-47)                      *)
(***************************************************************************)
\* Mutant: the amount sold is left out of the denominator (a quote without
\* slippage).
getOutputAmount_NoSlippage(inputAmount, inputReserve, outputReserve) ==
    LET inputAmountWithFee == inputAmount * 997
        numerator == inputAmountWithFee * outputReserve
        denominator == inputReserve * 1000
    IN  IF denominator = 0 THEN Throw("division-by-zero")
        ELSE Ok(TDiv(numerator, denominator))

getOutputAmount(inputAmount, inputReserve, outputReserve) ==
    LET inputAmountWithFee == inputAmount * 997
        numerator == inputAmountWithFee * outputReserve
        denominator == inputReserve * 1000 + inputAmountWithFee
    IN  \* BigNumber.div throws on a zero divisor; there is no reserve check
        IF denominator = 0 THEN Throw("division-by-zero")
        ELSE Ok(TDiv(numerator, denominator))

(***************************************************************************)
(* Arbitrage.calculateOptimalDelta  (src/src/Arbitrage.ts:271-291)         *)
(***************************************************************************)
calculateOptimalDelta(reserves, prices) ==
    IF Len(prices) < 2
    THEN Throw("TypeError")       \* prices[1] is undefined: price1.sub throws
    ELSE
    LET price0 == prices[1]
        price1 == prices[2]
        reserve0 == reserves[1]
        reserve1 == reserves[2]
        priceDiff == price1 - price0
    IN  IF priceDiff > 0
        THEN LET delta0 == TDiv(reserve0 * 20, 100)
                 delta1 == TDiv(delta0 * price0, ETHER)
             IN  Ok(<<delta0, delta1 * (-1)>>)
        ELSE LET delta1 == TDiv(reserve1 * 20, 100)
                 delta0 == TDiv(delta1 * price1, ETHER)
             IN  Ok(<<delta0 * (-1), delta1>>)

(***************************************************************************)
(* cfmm.arbitrage closure of convertMarketsToNetwork                       *)
(* (src/src/Arbitrage.ts:250-258): reads the pool's current reserves,      *)
(* returns {delta, value} with value the sum of the delta components.      *)
(* NoReserves stands for a getReservesByToken() that gives no array.       *)
(***************************************************************************)
NoReserves == <<>>

arbitrage(currentReserves, prices) ==
    LET optimalDelta == calculateOptimalDelta(currentReserves, prices)
    IN  IF currentReserves = NoReserves THEN Throw("Expected array of reserves")
        ELSE IF ~optimalDelta.ok THEN Throw(optimalDelta.err)
        ELSE Ok([delta |-> optimalDelta.val, value |-> SumSeq(optimalDelta.val)])

NoCall == [prices |-> <<>>, res |-> Throw("not-called")]

PoolInit ==
    /\ cfmmReserves \in (0..MaxReserve) \X (0..MaxReserve)
    /\ quoted = << >>
    /\ arbCall = NoCall

\* The pool functions are not exercised.
PoolIdle ==
    /\ cfmmReserves = <<0, 0>>
    /\ quoted = << >>
    /\ arbCall = NoCall

\* One call getOutputAmount(amountIn, reserve0, reserve1).
GetOutputAmount(amountIn) ==
    /\ amountIn \notin DOMAIN quoted
    /\ quoted' = (amountIn :> getOutputAmount(amountIn, cfmmReserves[1], cfmmReserves[2]))
                    @@ quoted
    /\ UNCHANGED <<cfmmReserves, arbCall>>
    /\ UNCHANGED <<hopVars, wsVars, optVars, evalVars, pairVars, bundleVars, dualVars, searchVars, volumeVars, connVars, fetchVars, takeVars>>

\* One call cfmm.arbitrage(prices) on the pool under test.
Arbitrage(prices) ==
    /\ arbCall' = [prices |-> prices, res |-> arbitrage(cfmmReserves, prices)]
    /\ UNCHANGED <<cfmmReserves, quoted>>
    /\ UNCHANGED <<hopVars, wsVars, optVars, evalVars, pairVars, bundleVars, dualVars, searchVars, volumeVars, connVars, fetchVars, takeVars>>

PriceVectors == UNION {[1..n -> 0..MaxPrice] : n \in 1..2}

QuoteNext == \E amountIn \in 0..MaxAmountIn : GetOutputAmount(amountIn)

ArbNext == \E prices \in PriceVectors : Arbitrage(prices)

(***************************************************************************)
(* Multi-hop path search  (src/unnamed/part_000:199-286)                   *)
(***************************************************************************)
\* Bounds of the multi-hop model
MaxPools == 3
MaxPathsBound == 2
\* pools of the four-token ring used for the depth limit
MaxRingPools == 4
\* reserve values a pool side may hold
ReserveLow == 100
ReserveMid == 150
ReserveHigh == 1400
\* stand-in for the initial amount BigNumber.from(10).pow(18) (1 ETH)
InitialAmount == 1200
\* stand-in for Number.MAX_SAFE_INTEGER (2^53 - 1, about 0.009 * 10^18):
\* BigNumber.toNumber() throws above it
MAX_SAFE_INTEGER == 10

MAX_HOPS == 3
\* Math.floor(this.FLASH_LOAN_FEE * 10000) with FLASH_LOAN_FEE = 0.0009
FLASH_LOAN_FEE_BPS == 9

WETH_ADDRESS == "WETH"
Tokens == {"WETH", "X", "Y", "Z"}
TokenPairs == {<<"WETH", "X">>, <<"X", "Y">>, <<"WETH", "Y">>}
ReserveChoices == {ReserveLow, ReserveHigh}
PoolChoices == [tokens : TokenPairs, reserves : ReserveChoices \X ReserveChoices]
\* pools of a ring WETH - X - Y - Z - WETH, priced one way or the other
RingPairs == {<<"WETH", "X">>, <<"X", "Y">>, <<"Y", "Z">>, <<"Z", "WETH">>}
RingPoolChoices == [tokens : RingPairs,
                    reserves : {<<ReserveLow, ReserveHigh>>, <<ReserveHigh, ReserveLow>>}]

RECURSIVE IncidentFrom(_, _)
IncidentFrom(t, i) ==
    IF i > Len(hopMarkets) THEN <<>>
    ELSE IF t = hopMarkets[i].tokens[1] \/ t = hopMarkets[i].tokens[2]
         THEN <<i>> \o IncidentFrom(t, i + 1)
         ELSE IncidentFrom(t, i + 1)

\* marketsByToken[token] || []: the pools that hold the token, in list order.
MarketsByToken(t) == IncidentFrom(t, 1)

\* market.getTokensOut(tokenIn, tokenOut, amountIn): the constant-product quote
\* on the pool's reserves; a failing pool throws.
getTokensOut(m, tokenIn, tokenOut, amountIn) ==
    LET market == hopMarkets[m]
        reserveIn == IF market.tokens[1] = tokenIn THEN market.reserves[1]
                     ELSE market.reserves[2]
        reserveOut == IF market.tokens[1] = tokenOut THEN market.reserves[1]
                      ELSE market.reserves[2]
    IN  IF m = hopFailing THEN Throw("quote-failed")
        ELSE getOutputAmount(amountIn, reserveIn, reserveOut)

\* opportunities.sort((a, b) => b.expectedProfit.sub(a.expectedProfit).toNumber())
\* (part_000:228).  Array.prototype.sort is stable; the comparator throws when
\* the difference of two compared profits exceeds Number.MAX_SAFE_INTEGER.
RECURSIVE InsertByProfit(_, _)
\* Mutant: the comparator's operands swapped (lowest profit first).
InsertByProfit_Ascending(s, x) ==
    IF s = <<>> THEN <<x>>
    ELSE IF Head(s).expectedProfit <= x.expectedProfit
         THEN <<Head(s)>> \o InsertByProfit(Tail(s), x)
         ELSE <<x>> \o s

InsertByProfit(s, x) ==
    IF s = <<>> THEN <<x>>
    ELSE IF Head(s).expectedProfit >= x.expectedProfit
         THEN <<Head(s)>> \o InsertByProfit(Tail(s), x)
         ELSE <<x>> \o s

RECURSIVE SortByProfit(_)
SortByProfit(s) ==
    IF s = <<>> THEN <<>>
    ELSE InsertByProfit(SortByProfit(SubSeq(s, 1, Len(s) - 1)), s[Len(s)])

ComparatorThrows(a, b) == Abs(b.expectedProfit - a.expectedProfit) > MAX_SAFE_INTEGER

\* Which pairs the engine compares is implementation-defined, except that two
\* elements adjacent in the sorted order are always compared with each other.
SortOutcomes(s) ==
    LET sorted == SortByProfit(s)
        must == \E i \in 1..(Len(sorted) - 1) : ComparatorThrows(sorted[i], sorted[i + 1])
        may == \E i, j \in 1..Len(sorted) : ComparatorThrows(sorted[i], sorted[j])
    IN  (IF must THEN {} ELSE {Ok(sorted)}) \cup (IF may THEN {Throw("overflow")} ELSE {})

HopInit ==
    /\ hopMarkets \in UNION {[1..n -> PoolChoices] : n \in 0..MaxPools}
    /\ hopFailing \in 0..Len(hopMarkets)
    /\ maxPaths \in 1..MaxPathsBound
    /\ hopPc = "idle"
    /\ stack = <<>>
    /\ visited = {}
    /\ currentPath = <<>>
    /\ tokenPath = <<>>
    /\ opportunities = <<>>
    /\ hopResult = <<>>

\* A search over pools of the four-token ring, every quote succeeding.
HopRingInit ==
    /\ hopMarkets \in UNION {[1..n -> RingPoolChoices] : n \in 1..MaxRingPools}
    /\ hopFailing = 0
    /\ maxPaths = MaxPathsBound
    /\ hopPc = "idle"
    /\ stack = <<>>
    /\ visited = {}
    /\ currentPath = <<>>
    /\ tokenPath = <<>>
    /\ opportunities = <<>>
    /\ hopResult = <<>>

\* A search over WETH/X pools whose cycles differ little in profit, so that
\* the comparator of the final sort does not overflow.
SortPoolChoices == [tokens : {<<"WETH", "X">>},
                    reserves : {<<ReserveLow, ReserveHigh>>, <<ReserveMid, ReserveHigh>>,
                                <<ReserveHigh, ReserveLow>>}]
HopSortInit ==
    /\ hopMarkets \in [1..MaxPools -> SortPoolChoices]
    /\ hopFailing = 0
    /\ maxPaths = MaxPathsBound
    /\ hopPc = "idle"
    /\ stack = <<>>
    /\ visited = {}
    /\ currentPath = <<>>
    /\ tokenPath = <<>>
    /\ opportunities = <<>>
    /\ hopResult = <<>>

HopIdle ==
    /\ hopMarkets = <<>>
    /\ hopFailing = 0
    /\ maxPaths = 1
    /\ hopPc = "idle"
    /\ stack = <<>>
    /\ visited = {}
    /\ currentPath = <<>>
    /\ tokenPath = <<>>
    /\ opportunities = <<>>
    /\ hopResult = <<>>

Top == stack[Len(stack)]
targetToken == WETH_ADDRESS

\* findArbitrageOpportunities(marketsByToken, startToken = WETH_ADDRESS, maxPaths)
\* up to the first findPaths call (part_000:222-226).
FindArbitrageOpportunities ==
    /\ hopPc = "idle"
    /\ opportunities' = <<>>
    /\ visited' = {}
    /\ currentPath' = <<>>
    /\ tokenPath' = <<>>
    /\ stack' = <<[token |-> WETH_ADDRESS, amount |-> 0, depth |-> 0, idx |-> 1]>>
    /\ hopPc' = "call"
    /\ UNCHANGED <<hopMarkets, hopFailing, maxPaths, hopResult>>
    /\ UNCHANGED <<poolVars, wsVars, optVars, evalVars, pairVars, bundleVars, dualVars, searchVars, volumeVars, connVars, fetchVars, takeVars>>

\* Mutant: the caller does not delete the token from visited.
ReturnFromFindPaths_KeepVisited(opps) ==
    /\ opportunities' = opps
    /\ stack' = SubSeq(stack, 1, Len(stack) - 1)
    /\ IF Len(stack) = 1
       THEN /\ \E out \in SortOutcomes(opps) :
                 /\ hopPc' = IF out.ok THEN "done" ELSE "failed"
                 /\ hopResult' = IF out.ok THEN out.val ELSE <<>>
            /\ UNCHANGED <<visited, currentPath, tokenPath>>
       ELSE /\ visited' = visited
            /\ currentPath' = SubSeq(currentPath, 1, Len(currentPath) - 1)
            /\ tokenPath' = SubSeq(tokenPath, 1, Len(tokenPath) - 1)
            /\ hopPc' = "loop"
            /\ UNCHANGED hopResult
    /\ UNCHANGED <<hopMarkets, hopFailing, maxPaths>>
    /\ UNCHANGED <<poolVars, wsVars, optVars, evalVars, pairVars, bundleVars, dualVars, searchVars, volumeVars, connVars, fetchVars, takeVars>>

\* The top activation returns.  Its caller backtracks (part_000:281-284) and goes
\* on with its loop; when it was the first activation, findArbitrageOpportunities
\* sorts and returns (part_000:227-228).
ReturnFromFindPaths(opps) ==
    /\ opportunities' = opps
    /\ stack' = SubSeq(stack, 1, Len(stack) - 1)
    /\ IF Len(stack) = 1
       THEN /\ \E out \in SortOutcomes(opps) :
                 /\ hopPc' = IF out.ok THEN "done" ELSE "failed"
                 /\ hopResult' = IF out.ok THEN out.val ELSE <<>>
            /\ UNCHANGED <<visited, currentPath, tokenPath>>
       ELSE /\ visited' = visited \ {Top.token}
            /\ currentPath' = SubSeq(currentPath, 1, Len(currentPath) - 1)
            /\ tokenPath' = SubSeq(tokenPath, 1, Len(tokenPath) - 1)
            /\ hopPc' = "loop"
            /\ UNCHANGED hopResult
    /\ UNCHANGED <<hopMarkets, hopFailing, maxPaths>>
    /\ UNCHANGED <<poolVars, wsVars, optVars, evalVars, pairVars, bundleVars, dualVars, searchVars, volumeVars, connVars, fetchVars, takeVars>>

\* Mutant: the depth limit is tested one hop too late.
DepthLimitReached_OffByOne(depth) == depth > MAX_HOPS

DepthLimitReached(depth) == depth >= MAX_HOPS

\* Mutant: the closing token is not appended to the recorded token list.
CycleRecord_Unclosed(path, tokens, currentToken, profit) ==
    [markets |-> path, tokens |-> tokens, expectedProfit |-> profit]

\* Mutant: the recorded pool list aliases currentPath, which backtracking empties.
CycleRecord_Aliased(path, tokens, currentToken, profit) ==
    [markets |-> <<>>, tokens |-> Append(tokens, currentToken), expectedProfit |-> profit]

\* Mutant: the accumulated amount is recorded in place of the profit.
CycleRecord_Gross(path, tokens, currentToken, profit) ==
    [markets |-> path, tokens |-> Append(tokens, currentToken),
     expectedProfit |-> profit + InitialAmount]

\* The opportunity pushed for a profitable cycle (part_000:235-239).
CycleRecord(path, tokens, currentToken, profit) ==
    [markets |-> path, tokens |-> Append(tokens, currentToken), expectedProfit |-> profit]

\* Mutant: a closed cycle is recorded whatever its profit.
IsProfitable_Always(profit) == TRUE

\* The test a closed cycle must pass to be recorded: profit.gt(0) (part_000:234).
IsProfitable(profit) == profit > 0

\* Entry of findPaths: the cycle test and the stop test (part_000:231-246).
EnterFindPaths ==
    /\ hopPc = "call"
    /\ IF Top.depth > 0 /\ Top.token = targetToken
       THEN LET profit == Top.amount - InitialAmount
            IN  ReturnFromFindPaths(
                    IF IsProfitable(profit)
                    THEN Append(opportunities,
                                CycleRecord(currentPath, tokenPath, Top.token, profit))
                    ELSE opportunities)
       ELSE IF DepthLimitReached(Top.depth) \/ Len(opportunities) >= maxPaths
            THEN ReturnFromFindPaths(opportunities)
            ELSE /\ hopPc' = "loop"
                 /\ UNCHANGED <<hopMarkets, hopFailing, maxPaths, stack, visited,
                                currentPath, tokenPath, opportunities, hopResult>>
                 /\ UNCHANGED <<poolVars, wsVars, optVars, evalVars, pairVars, bundleVars, dualVars, searchVars, volumeVars, connVars, fetchVars, takeVars>>

\* part_000:254
SkipVisited(otherToken, depth) ==
    otherToken \in visited /\ (otherToken # targetToken \/ depth = 0)

\* Mutant: the flash-loan fee is deducted on every hop.
EdgeOutput_FeeEveryHop(m, currentToken, otherToken, depth, currentAmount) ==
    LET q == getTokensOut(m, currentToken, otherToken,
                          IF depth = 0 THEN InitialAmount ELSE currentAmount)
    IN  IF ~q.ok THEN q
        ELSE Ok(q.val - TDiv(q.val * FLASH_LOAN_FEE_BPS, 10000))

\* The quote of one edge with the first-hop flash-loan fee (part_000:258-271).
EdgeOutput(m, currentToken, otherToken, depth, currentAmount) ==
    LET q == getTokensOut(m, currentToken, otherToken,
                          IF depth = 0 THEN InitialAmount ELSE currentAmount)
    IN  IF ~q.ok THEN q
        ELSE IF depth = 0
             THEN Ok(q.val - TDiv(q.val * FLASH_LOAN_FEE_BPS, 10000))
             ELSE q

\* Mutant: the error of a quote is not caught.
ExpandEdge_AbortOnError ==
    /\ hopPc = "loop"
    /\ Top.idx <= Len(MarketsByToken(Top.token))
    /\ LET m == MarketsByToken(Top.token)[Top.idx]
           market == hopMarkets[m]
           otherToken == IF market.tokens[1] = Top.token THEN market.tokens[2]
                         ELSE market.tokens[1]
           out == EdgeOutput(m, Top.token, otherToken, Top.depth, Top.amount)
           advanced == [stack EXCEPT ![Len(stack)].idx = Top.idx + 1]
       IN  IF ~SkipVisited(otherToken, Top.depth) /\ ~out.ok
           THEN /\ hopPc' = "failed"
                /\ UNCHANGED <<stack, visited, currentPath, tokenPath>>
           ELSE IF SkipVisited(otherToken, Top.depth) \/ out.val <= 0
           THEN /\ stack' = advanced
                /\ UNCHANGED <<hopPc, visited, currentPath, tokenPath>>
           ELSE /\ visited' = visited \cup {otherToken}
                /\ currentPath' = Append(currentPath, m)
                /\ tokenPath' = Append(tokenPath, Top.token)
                /\ stack' = Append(advanced, [token |-> otherToken, amount |-> out.val,
                                              depth |-> Top.depth + 1, idx |-> 1])
                /\ hopPc' = "call"
    /\ UNCHANGED <<hopMarkets, hopFailing, maxPaths, opportunities, hopResult>>
    /\ UNCHANGED <<poolVars, wsVars, optVars, evalVars, pairVars, bundleVars, dualVars, searchVars, volumeVars, connVars, fetchVars, takeVars>>

\* One iteration of the loop over relevantMarkets (part_000:249-280): the edge is
\* skipped, or pushed and findPaths called on the other token.
ExpandEdge ==
    /\ hopPc = "loop"
    /\ Top.idx <= Len(MarketsByToken(Top.token))
    /\ LET m == MarketsByToken(Top.token)[Top.idx]
           market == hopMarkets[m]
           otherToken == IF market.tokens[1] = Top.token THEN market.tokens[2]
                         ELSE market.tokens[1]
           out == EdgeOutput(m, Top.token, otherToken, Top.depth, Top.amount)
           advanced == [stack EXCEPT ![Len(stack)].idx = Top.idx + 1]
       IN  IF SkipVisited(otherToken, Top.depth) \/ ~out.ok \/ out.val <= 0
           THEN /\ stack' = advanced
                /\ UNCHANGED <<hopPc, visited, currentPath, tokenPath>>
           ELSE /\ visited' = visited \cup {otherToken}
                /\ currentPath' = Append(currentPath, m)
                /\ tokenPath' = Append(tokenPath, Top.token)
                /\ stack' = Append(advanced, [token |-> otherToken, amount |-> out.val,
                                              depth |-> Top.depth + 1, idx |-> 1])
                /\ hopPc' = "call"
    /\ UNCHANGED <<hopMarkets, hopFailing, maxPaths, opportunities, hopResult>>
    /\ UNCHANGED <<poolVars, wsVars, optVars, evalVars, pairVars, bundleVars, dualVars, searchVars, volumeVars, connVars, fetchVars, takeVars>>

\* The loop over relevantMarkets is exhausted: findPaths returns (part_000:285-286).
LoopDone ==
    /\ hopPc = "loop"
    /\ Top.idx > Len(MarketsByToken(Top.token))
    /\ ReturnFromFindPaths(opportunities)

HopNext ==
    \/ FindArbitrageOpportunities
    \/ EnterFindPaths
    \/ ExpandEdge
    \/ LoopDone

(***************************************************************************)
(* Websocket manager  (src/src/websocketmanager.ts)                        *)
(* Every 'message' event starts its own run of the async handler; a run    *)
(* gives the event loop back at each await of a network call.              *)
(***************************************************************************)
\* messages received in one behaviour
MaxEvents == 3

EventKinds == {"response", "newHeads", "unmonitored", "transfer", "swap"}

WsInit == wsHandlers = <<>>

WsIdle == wsHandlers = <<>>

\* ws.on('message') up to the first network await (websocketmanager.ts:70-95,
\* 192-223, 225-235 and 258-268): a transfer or swap log of a monitored address
\* whose market is found goes on to market.updateReserves(); every other
\* message is done with.
OnMessage(kind, marketFound) ==
    /\ Len(wsHandlers) < MaxEvents
    /\ wsHandlers' = Append(wsHandlers,
            [kind |-> kind,
             pc |-> IF kind \in {"transfer", "swap"} /\ marketFound
                    THEN "updateReserves" ELSE "done"])
    /\ UNCHANGED <<poolVars, hopVars, optVars, evalVars, pairVars, bundleVars, dualVars, searchVars, volumeVars, connVars, fetchVars, takeVars>>

\* await market.updateReserves() settles (websocketmanager.ts:235, 268): the
\* handler calls arbitrage.evaluateMarkets, or its catch logs the failure.
UpdateReservesSettled(h, ok) ==
    /\ wsHandlers[h].pc = "updateReserves"
    /\ wsHandlers' = [wsHandlers EXCEPT ![h].pc = IF ok THEN "evaluateMarkets" ELSE "done"]
    /\ UNCHANGED <<poolVars, hopVars, optVars, evalVars, pairVars, bundleVars, dualVars, searchVars, volumeVars, connVars, fetchVars, takeVars>>

\* await this.arbitrage.evaluateMarkets(...) settles (websocketmanager.ts:241-248,
\* 274-281): with opportunities the handler calls takeCrossedMarkets.
EvaluateMarketsSettled(h, found) ==
    /\ wsHandlers[h].pc = "evaluateMarkets"
    /\ wsHandlers' = [wsHandlers EXCEPT ![h].pc = IF found THEN "takeCrossedMarkets" ELSE "done"]
    /\ UNCHANGED <<poolVars, hopVars, optVars, evalVars, pairVars, bundleVars, dualVars, searchVars, volumeVars, connVars, fetchVars, takeVars>>

\* await this.arbitrage.takeCrossedMarkets(...) settles (websocketmanager.ts:247, 280).
TakeCrossedMarketsSettled(h) ==
    /\ wsHandlers[h].pc = "takeCrossedMarkets"
    /\ wsHandlers' = [wsHandlers EXCEPT ![h].pc = "done"]
    /\ UNCHANGED <<poolVars, hopVars, optVars, evalVars, pairVars, bundleVars, dualVars, searchVars, volumeVars, connVars, fetchVars, takeVars>>

WsNext ==
    \/ \E kind \in EventKinds, marketFound \in BOOLEAN : OnMessage(kind, marketFound)
    \/ \E h \in 1..Len(wsHandlers), ok \in BOOLEAN : UpdateReservesSettled(h, ok)
    \/ \E h \in 1..Len(wsHandlers), found \in BOOLEAN : EvaluateMarketsSettled(h, found)
    \/ \E h \in 1..Len(wsHandlers) : TakeCrossedMarketsSettled(h)

\* the evaluation cycles in flight: handlers inside evaluateMarkets or
\* takeCrossedMarkets
CyclesInFlight ==
    {h \in 1..Len(wsHandlers) : wsHandlers[h].pc \in {"evaluateMarkets", "takeCrossedMarkets"}}

(***************************************************************************)
(* Dual optimizer  (src/src/optimization/HybridOptimizer.ts) with the      *)
(* utility and the pools evaluateMarkets gives it (src/src/Arbitrage.ts)   *)
(***************************************************************************)
\* stand-in for the uint256 maximum the bounds search starts from
MaxUint == 16
\* stand-in for the 1e15 precision of the bounds search
Precision == 2
\* stand-in for the 2^64 scale of rho
RhoScale == 16
\* stand-in for tolerance * 1e18
ToleranceWei == 3
\* stand-in for maxIterations: 100
MaxIterations == 4
\* largest options.memory
MaxMemory == 2
\* largest component of an initial price vector
MaxInitialV == 3
\* pools in the network, and coordinates of the price vector
MaxCfmms == 2
MaxDim == 2

CfmmReserveChoices == {<<0, 10>>, <<10, 5>>, <<5, 10>>}

Dot(a, b) == SumSeq([i \in DOMAIN a |-> a[i] * b[i]])

\* utility.U_optimal of evaluateMarkets (Arbitrage.ts:187-192)
U_optimal(v) == [value |-> Dot(v, v), gradient |-> [i \in DOMAIN v |-> v[i] * 2]]

\* the loop over this.cfmms in dualObjective (HybridOptimizer.ts:87-100): a
\* pool whose arbitrage throws, or whose delta has no i-th entry to add,
\* makes dualObjective throw
RECURSIVE AddCfmms(_, _, _, _)
AddCfmms_SkipFailed(cfmms, v, k, acc) ==
    IF k > Len(cfmms) THEN Ok(acc)
    ELSE LET r == arbitrage(cfmms[k], v)
         IN  IF ~r.ok \/ Len(v) > Len(r.val.delta) THEN AddCfmms(cfmms, v, k + 1, acc)
             ELSE AddCfmms(cfmms, v, k + 1,
                     [value |-> acc.value + r.val.value,
                      gradient |-> [i \in DOMAIN v |-> acc.gradient[i] + r.val.delta[i]]])

AddCfmms(cfmms, v, k, acc) ==
    IF k > Len(cfmms) THEN Ok(acc)
    ELSE LET r == arbitrage(cfmms[k], v)
         IN  IF ~r.ok THEN r
             ELSE IF Len(v) > Len(r.val.delta) THEN Throw("TypeError")
             ELSE AddCfmms(cfmms, v, k + 1,
                     [value |-> acc.value + r.val.value,
                      gradient |-> [i \in DOMAIN v |-> acc.gradient[i] + r.val.delta[i]]])

\* HybridOptimizer.dualObjective (HybridOptimizer.ts:74-103)
dualObjective(cfmms, v) == AddCfmms(cfmms, v, 1, U_optimal(v))

\* the binary search of findActiveInterval for coordinate i
\* (HybridOptimizer.ts:47-66); a throwing evaluation shrinks the interval
RECURSIVE Bisect(_, _, _, _, _)
Bisect(cfmms, v, i, left, right) ==
    IF right - left > Precision
    THEN LET mid == left + TDiv(right - left, 2)
             r == dualObjective(cfmms, [v EXCEPT ![i] = mid])
         IN  IF r.ok /\ ~(r.val.value > 0)
             THEN Bisect(cfmms, v, i, mid, right)
             ELSE Bisect(cfmms, v, i, left, mid)
    ELSE right

\* HybridOptimizer.findActiveInterval (HybridOptimizer.ts:41-72)
findActiveInterval(cfmms, v) ==
    [lower |-> [i \in DOMAIN v |-> 0],
     upper |-> [i \in DOMAIN v |-> Bisect(cfmms, v, i, 0, MaxUint) * 2]]

\* first loop of the two-loop recursion, newest pair first
\* (HybridOptimizer.ts:116-126); alpha[i] is the alpha of pair i
RECURSIVE FirstLoop(_, _, _, _)
FirstLoop(memory, i, q, alpha) ==
    IF i = 0 THEN [q |-> q, alpha |-> alpha]
    ELSE LET alphaI == memory[i].rho * Dot(memory[i].s, q)
         IN  FirstLoop(memory, i - 1,
                       [j \in DOMAIN q |-> q[j] - alphaI * memory[i].y[j]],
                       [alpha EXCEPT ![i] = alphaI])

\* scaling by the pair at index 0 of the memory (HybridOptimizer.ts:129-138)
ScaleByPair(memory, q) ==
    IF Len(memory) > 0
    THEN LET scale == TDiv(Dot(memory[1].s, memory[1].y), Dot(memory[1].y, memory[1].y))
         IN  [i \in DOMAIN q |-> q[i] * scale]
    ELSE q

\* second loop of the two-loop recursion (HybridOptimizer.ts:141-150)
RECURSIVE SecondLoop(_, _, _, _)
SecondLoop(memory, i, q, alpha) ==
    IF i > Len(memory) THEN q
    ELSE LET beta == memory[i].rho * Dot(memory[i].y, q)
         IN  SecondLoop(memory, i + 1,
                        [j \in DOMAIN q |-> q[j] + memory[i].s[j] * (alpha[i] - beta)],
                        alpha)

Project_NoUpper(projected, lower, upper) ==
    IF projected < lower THEN lower ELSE projected

Project_NoLower(projected, lower, upper) ==
    IF projected > upper THEN upper ELSE projected

\* projection of one coordinate onto its bounds (HybridOptimizer.ts:156-161)
Project(projected, lower, upper) ==
    IF projected < lower THEN lower
    ELSE IF projected > upper THEN upper
    ELSE projected

\* HybridOptimizer.lbfgsbStep (HybridOptimizer.ts:105-167)
lbfgsbStep(cfmms, v, memory, prevGrad, bounds) ==
    LET first == FirstLoop(memory, Len(memory), prevGrad, [i \in 1..Len(memory) |-> 0])
        q == SecondLoop(memory, 1, ScaleByPair(memory, first.q), first.alpha)
        direction == [i \in DOMAIN q |-> q[i] * (-1)]
        newV == [i \in DOMAIN v |->
                    Project(v[i] + direction[i], bounds.lower[i], bounds.upper[i])]
        r == dualObjective(cfmms, newV)
    IN  IF r.ok THEN Ok([newV |-> newV, newGrad |-> r.val.gradient, newValue |-> r.val.value])
        ELSE r

UpdateMemory_EvictLate(memory, s, y, m) ==
    LET ys == Dot(y, s)
        pushed == Append(memory, [s |-> s, y |-> y, rho |-> TDiv(RhoScale, ys)])
    IN  IF ys > 0
        THEN IF Len(pushed) > m + 1 THEN Tail(pushed) ELSE pushed
        ELSE memory

UpdateMemory_AlwaysPush(memory, s, y, m) ==
    LET ys == Dot(y, s)
        pushed == Append(memory, [s |-> s, y |-> y,
                                  rho |-> IF ys = 0 THEN 0 ELSE TDiv(RhoScale, ys)])
    IN  IF Len(pushed) > m THEN Tail(pushed) ELSE pushed

UpdateMemory_EvictNewest(memory, s, y, m) ==
    LET ys == Dot(y, s)
        pushed == Append(memory, [s |-> s, y |-> y, rho |-> TDiv(RhoScale, ys)])
    IN  IF ys > 0
        THEN IF Len(pushed) > m THEN SubSeq(pushed, 1, m) ELSE pushed
        ELSE memory

\* the memory update of one iteration (HybridOptimizer.ts:202-213)
UpdateMemory(memory, s, y, m) ==
    LET ys == Dot(y, s)
        pushed == Append(memory, [s |-> s, y |-> y, rho |-> TDiv(RhoScale, ys)])
    IN  IF ys > 0
        THEN IF Len(pushed) > m THEN Tail(pushed) ELSE pushed
        ELSE memory

\* the same update on the three arrays of LBFGSBMemory, statement by
\* statement (HybridOptimizer.ts:202-212): a push on each array, then a shift
\* of each array when memory.s is longer than options.memory
UpdateLists(lists, s, y, m) ==
    LET ys == Dot(y, s)
        pushedS == Append(lists.s, s)
        pushedY == Append(lists.y, y)
        pushedRho == Append(lists.rho, TDiv(RhoScale, ys))
    IN  IF ys > 0
        THEN IF Len(pushedS) > m
             THEN [s |-> Tail(pushedS), y |-> Tail(pushedY), rho |-> Tail(pushedRho)]
             ELSE [s |-> pushedS, y |-> pushedY, rho |-> pushedRho]
        ELSE lists

\* memory.s, memory.y and memory.rho of a memory held as a list of triples
MemoryLists(memory) ==
    [s |-> [i \in DOMAIN memory |-> memory[i].s],
     y |-> [i \in DOMAIN memory |-> memory[i].y],
     rho |-> [i \in DOMAIN memory |-> memory[i].rho]]

NoResult == [v |-> <<>>, dualValue |-> 0, converged |-> FALSE, iterations |-> -1]

\* an optimizer constructed with one of the given options, before optimize
\* (HybridOptimizer.ts:31-39)
OptConstructed(options) ==
    /\ optCfmms \in UNION {[1..n -> CfmmReserveChoices] : n \in 0..MaxCfmms}
    /\ optOptions \in options
    /\ optPc = "idle"
    /\ optV = <<>>
    /\ optGrad = <<>>
    /\ optValue = 0
    /\ optBounds = [lower |-> <<>>, upper |-> <<>>]
    /\ optMemory = <<>>
    /\ optIteration = 0
    /\ optConverged = FALSE
    /\ optResult = NoResult
    /\ optPushed = 0
    /\ optAccepted = <<>>
    /\ optSeen = {}
    /\ evalThreshold \in {Undefined, <<0>>}
    /\ evalPc = "idle"
    /\ evalConverted = FALSE
    /\ evalOpportunities = <<>>

OptInit ==
    OptConstructed([maxIterations : {MaxIterations}, toleranceWei : {ToleranceWei},
                    memory : 0..MaxMemory])

\* the constructor assigns any options it is given: a cap of 0 as well
OptAnyInit ==
    OptConstructed([maxIterations : {0, MaxIterations}, toleranceWei : {ToleranceWei},
                    memory : 0..MaxMemory])

\* an optimizer over a network of MaxCfmms pools, as evaluateMarkets builds it
OptRefreshInit ==
    /\ OptConstructed([maxIterations : {MaxIterations}, toleranceWei : {ToleranceWei},
                       memory : {MaxMemory}])
    /\ Len(optCfmms) = MaxCfmms

OptIdle ==
    /\ optCfmms = <<>>
    /\ optOptions = [maxIterations |-> 0, toleranceWei |-> 0, memory |-> 0]
    /\ optPc = "idle"
    /\ optV = <<>>
    /\ optGrad = <<>>
    /\ optValue = 0
    /\ optBounds = [lower |-> <<>>, upper |-> <<>>]
    /\ optMemory = <<>>
    /\ optIteration = 0
    /\ optConverged = FALSE
    /\ optResult = NoResult
    /\ optPushed = 0
    /\ optAccepted = <<>>
    /\ optSeen = {}
    /\ evalThreshold = Undefined
    /\ evalPc = "idle"
    /\ evalConverted = FALSE
    /\ evalOpportunities = <<>>

\* optimize(initialV) up to the loop (HybridOptimizer.ts:169-187): the first
\* dualObjective may throw out of optimize
Optimize(initialV) ==
    /\ optPc = "idle"
    /\ LET r == dualObjective(optCfmms, initialV)
       IN  IF r.ok
           THEN /\ optPc' = "loop"
                /\ optV' = initialV
                /\ optGrad' = r.val.gradient
                /\ optValue' = r.val.value
                /\ optBounds' = findActiveInterval(optCfmms, initialV)
           ELSE /\ optPc' = "threw"
                /\ UNCHANGED <<optV, optGrad, optValue, optBounds>>
    /\ UNCHANGED <<optCfmms, optOptions, optMemory, optIteration, optConverged, optResult,
                   optPushed, optAccepted>>
    /\ optSeen' = {optCfmms}
    /\ UNCHANGED <<poolVars, hopVars, wsVars, evalVars, pairVars, bundleVars, dualVars, searchVars, volumeVars, connVars, fetchVars, takeVars>>

\* the convergence test of one iteration (HybridOptimizer.ts:220-224): the
\* squared norm of the new gradient against the square of tolerance * 1e18
Converged(grad, toleranceWei) ==
    LET gradNormSquared == Dot(grad, grad)
        toleranceSquared == toleranceWei * toleranceWei
    IN  gradNormSquared < toleranceSquared

\* one pass of the loop body (HybridOptimizer.ts:189-231)
Iterate ==
    /\ optPc = "loop"
    /\ optIteration < optOptions.maxIterations /\ ~optConverged
    /\ LET step == lbfgsbStep(optCfmms, optV, optMemory, optGrad, optBounds)
       IN  IF step.ok
           THEN LET s == [i \in DOMAIN optV |-> step.val.newV[i] - optV[i]]
                    y == [i \in DOMAIN optGrad |-> step.val.newGrad[i] - optGrad[i]]
                IN  /\ optMemory' = UpdateMemory(optMemory, s, y, optOptions.memory)
                    /\ optPushed' = IF Dot(y, s) > 0 THEN optPushed + 1 ELSE optPushed
                    /\ optAccepted' = IF Dot(y, s) > 0
                                      THEN Append(optAccepted, [s |-> s, y |-> y, rho |-> TDiv(RhoScale, Dot(y, s))])
                                      ELSE optAccepted
                    /\ optV' = step.val.newV
                    /\ optGrad' = step.val.newGrad
                    /\ optValue' = step.val.newValue
                    /\ optConverged' = Converged(step.val.newGrad, optOptions.toleranceWei)
                    /\ optIteration' = optIteration + 1
                    /\ UNCHANGED optPc
           ELSE /\ optPc' = "threw"
                /\ UNCHANGED <<optMemory, optV, optGrad, optValue, optConverged, optIteration,
                               optPushed, optAccepted>>
    /\ optSeen' = optSeen \cup {optCfmms}
    /\ UNCHANGED <<optCfmms, optOptions, optBounds, optResult>>
    /\ UNCHANGED <<poolVars, hopVars, wsVars, evalVars, pairVars, bundleVars, dualVars, searchVars, volumeVars, connVars, fetchVars, takeVars>>

\* leaving the loop (HybridOptimizer.ts:189, 233-238)
OptimizeReturn ==
    /\ optPc = "loop"
    /\ ~(optIteration < optOptions.maxIterations /\ ~optConverged)
    /\ optPc' = "returned"
    /\ optResult' = [v |-> optV, dualValue |-> optValue, converged |-> optConverged,
                     iterations |-> optIteration]
    /\ UNCHANGED <<optCfmms, optOptions, optV, optGrad, optValue, optBounds, optMemory,
                   optIteration, optConverged, optPushed, optAccepted, optSeen>>
    /\ UNCHANGED <<poolVars, hopVars, wsVars, evalVars, pairVars, bundleVars, dualVars, searchVars, volumeVars, connVars, fetchVars, takeVars>>

\* the pool's reserves are read anew on every arbitrage call
\* (Arbitrage.ts:250-254); from some call on the query gives no array
ReservesUnavailable(k) ==
    /\ optPc \in {"idle", "loop"}
    /\ k \in DOMAIN optCfmms
    /\ optCfmms[k] # NoReserves
    /\ optCfmms' = [optCfmms EXCEPT ![k] = NoReserves]
    /\ UNCHANGED <<optOptions, optPc, optV, optGrad, optValue, optBounds, optMemory,
                   optIteration, optConverged, optResult, optPushed, optAccepted, optSeen>>
    /\ UNCHANGED <<poolVars, hopVars, wsVars, evalVars, pairVars, bundleVars, dualVars, searchVars, volumeVars, connVars, fetchVars, takeVars>>

\* market.updateReserves() of another handler or of the periodic update,
\* between two awaits of the run (websocketmanager.ts:266-269; part_000:157-179):
\* the pool object of the run now holds the new reserves. One update per run
\* is followed.
UpdateReserves(k, reserves) ==
    /\ optPc = "loop"
    /\ optSeen = {optCfmms}
    /\ k \in DOMAIN optCfmms
    /\ optCfmms[k] # NoReserves
    /\ optCfmms[k] # reserves
    /\ optCfmms' = [optCfmms EXCEPT ![k] = reserves]
    /\ UNCHANGED <<optOptions, optPc, optV, optGrad, optValue, optBounds, optMemory,
                   optIteration, optConverged, optResult, optPushed, optAccepted, optSeen>>
    /\ UNCHANGED <<poolVars, hopVars, wsVars, evalVars, pairVars, bundleVars, dualVars, searchVars, volumeVars, connVars, fetchVars, takeVars>>

\* one (i, j) pass of convertOptimizationResult (Arbitrage.ts:305-351): the
\* opportunity pushed, or nothing when the pass throws (caught, continue) or
\* the profit does not exceed the threshold
PairOpportunity(result, markets, threshold, i, j) ==
    LET optimalDelta1 == calculateOptimalDelta(markets[i], <<result.v[i], result.v[j]>>)
        optimalDelta2 == calculateOptimalDelta(markets[j], <<result.v[j], result.v[i]>>)
        profit == optimalDelta1.val[1] * result.v[i] + optimalDelta1.val[2] * result.v[j]
                  + optimalDelta2.val[1] * result.v[j] + optimalDelta2.val[2] * result.v[i]
    IN  IF markets[i] = NoReserves \/ markets[j] = NoReserves THEN <<>>
        ELSE IF i > Len(result.v) \/ j > Len(result.v) THEN <<>>
        ELSE IF ~optimalDelta1.ok \/ ~optimalDelta2.ok THEN <<>>
        ELSE IF threshold = Undefined THEN <<>>
        ELSE IF profit > threshold[1]
             THEN <<[buyFromMarket |-> i, sellToMarket |-> j,
                     volume |-> Abs(optimalDelta1.val[1]), profit |-> profit]>>
             ELSE <<>>

\* Arbitrage.convertOptimizationResult (Arbitrage.ts:293-354), the pools of the
\* network listed under one token: passes (i, j), i < j, in loop order
RECURSIVE ConvertFrom(_, _, _, _, _)
ConvertFrom(result, markets, threshold, i, j) ==
    IF i > Len(markets) THEN <<>>
    ELSE IF j > Len(markets) THEN ConvertFrom(result, markets, threshold, i + 1, i + 2)
    ELSE PairOpportunity(result, markets, threshold, i, j)
         \o ConvertFrom(result, markets, threshold, i, j + 1)

convertOptimizationResult(result, markets, threshold) ==
    ConvertFrom(result, markets, threshold, 1, 2)

\* the test evaluateMarkets makes before it converts the optimizer result
\* (Arbitrage.ts:208): a rejected optimize and the throw of gt(undefined) are
\* caught (213-217)
ConvertsResult(pc, result, threshold) ==
    /\ pc = "returned"
    /\ result.converged
    /\ threshold # Undefined
    /\ result.dualValue > threshold[1]

\* evaluateMarkets after optimize settled (Arbitrage.ts:205-220)
EvaluateMarkets ==
    /\ optPc \in {"returned", "threw"}
    /\ evalPc = "idle"
    /\ evalConverted' = ConvertsResult(optPc, optResult, evalThreshold)
    /\ evalOpportunities' =
          IF ConvertsResult(optPc, optResult, evalThreshold)
          THEN convertOptimizationResult(optResult, optCfmms, evalThreshold)
          ELSE <<>>
    /\ evalPc' = "returned"
    /\ UNCHANGED <<optVars, evalThreshold>>
    /\ UNCHANGED <<poolVars, hopVars, wsVars, pairVars, bundleVars, dualVars, searchVars, volumeVars, connVars, fetchVars, takeVars>>

InitialVectors == UNION {[1..n -> 0..MaxInitialV] : n \in 0..MaxDim}

OptNext ==
    \/ \E initialV \in InitialVectors : Optimize(initialV)
    \/ Iterate
    \/ OptimizeReturn
    \/ \E k \in 1..MaxCfmms : ReservesUnavailable(k)
    \/ EvaluateMarkets

(***************************************************************************)
(* Pairwise detector  (Arbitrage.findArbitrageTrades, src/src/Arbitrage.ts) *)
(* Amounts are scaled-down stand-ins.  A JavaScript number that holds       *)
(* formatUnits(p, 'ether') is kept as its numerator p over ETHER.           *)
(***************************************************************************)
\* pools handed to one call
MaxPairMarkets == 2
\* pools handed to a call whose opportunities are sorted
MaxSortMarkets == 3
\* stand-in for maxTradeSize = 100000
MaxTradeSize == 4
\* stand-in for DEFAULT_THRESHOLDS.MIN_LIQUIDITY_ETH (2 ETH, above 2^53 wei)
MIN_LIQUIDITY_ETH == 12
\* a lower MIN_LIQUIDITY_ETH a caller may configure (below 2^53 wei)
LowMinLiquidity == 4
\* stand-in for the per-unit price impact and fee of a pool
UnitCost == 3

WethReserveChoices == {0, LowMinLiquidity, MIN_LIQUIDITY_ETH}
OtherReserveChoices == {0, 2 * LowMinLiquidity, 2 * MIN_LIQUIDITY_ETH}
PairMarketChoices ==
    [tokens : {<<WETH_ADDRESS, "X">>},
     reserves : WethReserveChoices \X OtherReserveChoices,
     balanceFails : BOOLEAN]
PairKeyChoices == {<<WETH_ADDRESS>>, <<"X">>, <<WETH_ADDRESS, "X">>, <<"X", WETH_ADDRESS>>}

\* market.getReservesByToken(token)
getReservesByToken(market, token) ==
    IF market.tokens[1] = token THEN market.reserves[1] ELSE market.reserves[2]

\* BigNumber.toNumber(): throws above Number.MAX_SAFE_INTEGER
toNumber(x) == IF Abs(x) > MAX_SAFE_INTEGER THEN Throw("overflow") ELSE Ok(x)

\* BigNumber.from(n) for a JavaScript number n = numerator / ETHER: throws on
\* a fractional or unsafe number
BigNumberFromNumber(numerator) ==
    IF numerator % ETHER # 0 THEN Throw("underflow")
    ELSE IF Abs(TDiv(numerator, ETHER)) >= MAX_SAFE_INTEGER THEN Throw("overflow")
    ELSE Ok(TDiv(numerator, ETHER))

\* Arbitrage.fetchWETHBalance (Arbitrage.ts:914-940): the pool's WETH balance,
\* or null when every attempt failed
fetchWETHBalance(market) ==
    IF market.balanceFails THEN Null ELSE <<getReservesByToken(market, WETH_ADDRESS)>>

\* the filter callback of findArbitrageTrades (Arbitrage.ts:416-433)
KeepsMarket(market, tokenAddress, thresholds) ==
    LET liquidity == getReservesByToken(market, tokenAddress)
        wethBalance == fetchWETHBalance(market)
    IN  /\ ~(liquidity < thresholds.MIN_LIQUIDITY_ETH)
        /\ ~(wethBalance # Null /\ wethBalance[1] < thresholds.MIN_LIQUIDITY_ETH)

\* pools holding the token, in list order: marketsByToken[tokenAddress]
RECURSIVE MarketsHolding(_, _, _)
MarketsHolding(markets, tokenAddress, i) ==
    IF i > Len(markets) THEN <<>>
    ELSE IF tokenAddress = markets[i].tokens[1] \/ tokenAddress = markets[i].tokens[2]
         THEN <<i>> \o MarketsHolding(markets, tokenAddress, i + 1)
         ELSE MarketsHolding(markets, tokenAddress, i + 1)

\* filteredMarketsByToken (Arbitrage.ts:410-442) as a sequence of
\* [token, markets], keys without a valid pool left out
RECURSIVE FilterMarkets(_, _, _)
FilterMarkets(markets, keys, thresholds) ==
    IF keys = <<>> THEN <<>>
    ELSE LET tokenAddress == Head(keys)
             kept == SelectSeq(MarketsHolding(markets, tokenAddress, 1),
                         LAMBDA m : KeepsMarket(markets[m], tokenAddress, thresholds))
             validMarkets == SubSeq(kept, 1, Min2(Len(kept), thresholds.MAX_PAIRS))
             rest == FilterMarkets(markets, Tail(keys), thresholds)
         IN  IF Len(validMarkets) > 0
             THEN <<[token |-> tokenAddress, markets |-> validMarkets]>> \o rest
             ELSE rest

\* the entries generateReferencePrices pushes for one key (Arbitrage.ts:503-546);
\* a division by a zero reserve throws and the pool gets no entry
RECURSIVE ReferencePricesOf(_, _, _)
ReferencePricesOf(markets, tokenAddress, ms) ==
    IF ms = <<>> THEN <<>>
    ELSE LET market == markets[Head(ms)]
             tokenA == market.reserves[1]
             tokenB == market.reserves[2]
             divisor == IF market.tokens[1] = tokenAddress THEN tokenA ELSE tokenB
             price == IF market.tokens[1] = tokenAddress THEN TDiv(tokenB, tokenA)
                      ELSE TDiv(tokenA, tokenB)
             rest == ReferencePricesOf(markets, tokenAddress, Tail(ms))
         IN  IF divisor = 0 THEN rest
             ELSE <<[marketAddress |-> Head(ms), cumulativePrice |-> price,
                     marketCount |-> 1]>> \o rest

\* Arbitrage.generateReferencePrices (Arbitrage.ts:496-551)
RECURSIVE generateReferencePrices(_, _)
generateReferencePrices(markets, filtered) ==
    IF filtered = <<>> THEN <<>>
    ELSE ReferencePricesOf(markets, Head(filtered).token, Head(filtered).markets)
            \o generateReferencePrices(markets, Tail(filtered))

\* referencePrices.find(refPrice => refPrice.marketAddress === address):
\* the sequence of the first match, or the empty sequence
FindRefPrice(referencePrices, address) ==
    LET hits == SelectSeq(referencePrices, LAMBDA r : r.marketAddress = address)
    IN  IF hits = <<>> THEN <<>> ELSE <<Head(hits)>>

\* the binary search of calculateOptimalVolume (Arbitrage.ts:875-898);
\* comparing with an undefined minProfitThreshold throws
RECURSIVE VolumeSearch(_, _, _, _, _, _, _)
VolumeSearch(left, right, optimalVolume, maxExpectedProfit, profit, cost, threshold) ==
    IF left < right
    THEN LET mid == TDiv(left + right, 2)
             expectedProfit == profit * mid - cost * mid - cost * mid - cost * mid - cost * mid
         IN  IF expectedProfit > maxExpectedProfit
             THEN IF threshold = Undefined THEN Throw("invalid BigNumber value")
                  ELSE IF expectedProfit >= threshold[1]
                  THEN VolumeSearch(mid + 1, right, mid, expectedProfit, profit, cost, threshold)
                  ELSE VolumeSearch(left, mid - 1, optimalVolume, maxExpectedProfit,
                                    profit, cost, threshold)
             ELSE VolumeSearch(left, mid - 1, optimalVolume, maxExpectedProfit,
                               profit, cost, threshold)
    ELSE Ok(optimalVolume)

ClampVolume_IgnoreSell(optimalVolume, availableLiquidityBuy, availableLiquiditySell) ==
    IF ~toNumber(optimalVolume).ok THEN toNumber(optimalVolume)
    ELSE IF ~toNumber(availableLiquidityBuy).ok THEN toNumber(availableLiquidityBuy)
    ELSE IF ~toNumber(availableLiquiditySell).ok THEN toNumber(availableLiquiditySell)
    ELSE Ok(Min2(optimalVolume, availableLiquidityBuy))

\* BigNumber.from(Math.min(optimalVolume.toNumber(), ...)) of
\* calculateOptimalVolume (Arbitrage.ts:900-905): each toNumber may throw
ClampVolume(optimalVolume, availableLiquidityBuy, availableLiquiditySell) ==
    IF ~toNumber(optimalVolume).ok THEN toNumber(optimalVolume)
    ELSE IF ~toNumber(availableLiquidityBuy).ok THEN toNumber(availableLiquidityBuy)
    ELSE IF ~toNumber(availableLiquiditySell).ok THEN toNumber(availableLiquiditySell)
    ELSE Ok(Min2(optimalVolume, Min2(availableLiquidityBuy, availableLiquiditySell)))

\* Arbitrage.calculateOptimalVolume (Arbitrage.ts:848-912); cost is what the
\* getPriceImpact and getTradingFee queries give: a value, or a rejection
calculateOptimalVolume(buyFromMarket, sellToMarket, tokenAddress, profit, cost, thresholds) ==
    LET availableLiquidityBuy == getReservesByToken(buyFromMarket, tokenAddress)
        availableLiquiditySell == getReservesByToken(sellToMarket, tokenAddress)
        found == VolumeSearch(1, MaxTradeSize, 0, 0, profit, cost.val,
                              thresholds.minProfitThreshold)
    IN  IF ~cost.ok THEN cost
        ELSE IF ~found.ok THEN found
        ELSE ClampVolume(found.val, availableLiquidityBuy, availableLiquiditySell)

\* the body of the pair loop for buyFromMarket = ms[i], sellToMarket = ms[j]
\* (Arbitrage.ts:459-485): Ok of the entries it pushes, or what it throws
PairEntry(markets, referencePrices, tokenAddress, buy, sell, cost, thresholds) ==
    LET sellToMarketRefPrice == FindRefPrice(referencePrices, sell)
        buyFromMarketRefPrice == FindRefPrice(referencePrices, buy)
        profit == sellToMarketRefPrice[1].cumulativePrice
                    - buyFromMarketRefPrice[1].cumulativePrice
        profitBN == BigNumberFromNumber(profit)
        optimalVolume == calculateOptimalVolume(markets[buy], markets[sell], tokenAddress,
                                                profitBN.val, cost, thresholds)
    IN  IF sellToMarketRefPrice = <<>> \/ buyFromMarketRefPrice = <<>> THEN Ok(<<>>)
        ELSE IF ~(profit > 0) THEN Ok(<<>>)
        ELSE IF ~profitBN.ok THEN profitBN
        ELSE IF ~optimalVolume.ok THEN optimalVolume
        ELSE Ok(<<[profit |-> profitBN.val, volume |-> optimalVolume.val,
                   tokenAddress |-> tokenAddress,
                   buyFromMarket |-> buy, sellToMarket |-> sell]>>)

\* the (buyFromMarket, sellToMarket) pairs the loops over i < j visit for one
\* key, from (i, j) on (Arbitrage.ts:457-460)
RECURSIVE PairsOfKey(_, _, _, _)
PairsOfKey(tokenAddress, ms, i, j) ==
    IF i > Len(ms) THEN <<>>
    ELSE IF j > Len(ms) THEN PairsOfKey(tokenAddress, ms, i + 1, i + 2)
    ELSE <<[tokenAddress |-> tokenAddress, buy |-> ms[i], sell |-> ms[j]]>>
            \o PairsOfKey(tokenAddress, ms, i, j + 1)

\* the pairs visited over all keys of filteredMarketsByToken, in order
\* (Arbitrage.ts:453-460)
RECURSIVE PairsToVisit(_)
PairsToVisit(filtered) ==
    IF filtered = <<>> THEN <<>>
    ELSE PairsOfKey(Head(filtered).token, Head(filtered).markets, 1, 2)
            \o PairsToVisit(Tail(filtered))

\* crossedMarkets.sort((a, b) => b.profit.sub(a.profit).toNumber())
\* (Arbitrage.ts:491): stable, highest profit first; the profits are safe
\* integers, so the comparator does not throw
RECURSIVE InsertCrossed(_, _)
InsertCrossed(s, x) ==
    IF s = <<>> THEN <<x>>
    ELSE IF Head(s).profit >= x.profit THEN <<Head(s)>> \o InsertCrossed(Tail(s), x)
    ELSE <<x>> \o s

RECURSIVE SortCrossed(_)
SortCrossed(s) ==
    IF s = <<>> THEN <<>>
    ELSE InsertCrossed(SortCrossed(SubSeq(s, 1, Len(s) - 1)), s[Len(s)])

PairInit ==
    /\ pairMarkets \in UNION {[1..n -> PairMarketChoices] : n \in 0..MaxPairMarkets}
    /\ pairKeys \in PairKeyChoices
    /\ pairThresholds \in [MIN_LIQUIDITY_ETH : {LowMinLiquidity, MIN_LIQUIDITY_ETH},
                           MAX_PAIRS : {MaxPairMarkets},
                           minProfitThreshold : {Undefined, <<0>>}]
    /\ pairCost \in {Ok(0), Ok(UnitCost), Throw("query-failed")}
    /\ pairPc = "idle"
    /\ pairRefPrices = <<>>
    /\ pairTodo = <<>>
    /\ crossedMarkets = <<>>
    /\ pairResult = <<>>
    /\ pairError = ""
    /\ pairFirst = <<>>

\* A call on pools of equal WETH liquidity under the key WETH, with a
\* configured minProfitThreshold and every query succeeding.
PairSortInit ==
    /\ pairMarkets \in [1..MaxSortMarkets ->
                           [tokens : {<<WETH_ADDRESS, "X">>},
                            reserves : {LowMinLiquidity} \X OtherReserveChoices,
                            balanceFails : {FALSE}]]
    /\ pairKeys = <<WETH_ADDRESS>>
    /\ pairThresholds = [MIN_LIQUIDITY_ETH |-> LowMinLiquidity, MAX_PAIRS |-> MaxSortMarkets,
                         minProfitThreshold |-> <<0>>]
    /\ pairCost = Ok(0)
    /\ pairPc = "idle"
    /\ pairRefPrices = <<>>
    /\ pairTodo = <<>>
    /\ crossedMarkets = <<>>
    /\ pairResult = <<>>
    /\ pairError = ""
    /\ pairFirst = <<>>

PairIdle ==
    /\ pairMarkets = <<>>
    /\ pairKeys = <<>>
    /\ pairThresholds = [MIN_LIQUIDITY_ETH |-> 0, MAX_PAIRS |-> 0, minProfitThreshold |-> Undefined]
    /\ pairCost = Ok(0)
    /\ pairPc = "idle"
    /\ pairRefPrices = <<>>
    /\ pairTodo = <<>>
    /\ crossedMarkets = <<>>
    /\ pairResult = <<>>
    /\ pairError = ""
    /\ pairFirst = <<>>

\* findArbitrageTrades up to the pair loops (Arbitrage.ts:395-449): the
\* filter and the reference prices
FindArbitrageTrades ==
    /\ pairPc = "idle"
    /\ LET filtered == FilterMarkets(pairMarkets, pairKeys, pairThresholds)
       IN  /\ pairRefPrices' = generateReferencePrices(pairMarkets, filtered)
           /\ pairTodo' = PairsToVisit(filtered)
    /\ pairPc' = "loop"
    /\ UNCHANGED <<pairMarkets, pairKeys, pairThresholds, pairCost, crossedMarkets, pairResult,
                   pairError, pairFirst>>
    /\ UNCHANGED <<poolVars, hopVars, wsVars, optVars, evalVars, bundleVars, dualVars, searchVars, volumeVars, connVars, fetchVars, takeVars>>

\* one pass of the inner loop body (Arbitrage.ts:459-485); what it throws
\* rejects the call
VisitPair ==
    /\ pairPc = "loop"
    /\ pairTodo # <<>>
    /\ LET pair == Head(pairTodo)
           entry == PairEntry(pairMarkets, pairRefPrices, pair.tokenAddress, pair.buy,
                              pair.sell, pairCost, pairThresholds)
       IN  IF entry.ok
           THEN /\ crossedMarkets' = crossedMarkets \o entry.val
                /\ pairTodo' = Tail(pairTodo)
                /\ UNCHANGED <<pairPc, pairError>>
           ELSE /\ pairPc' = "threw"
                /\ pairError' = entry.err
                /\ UNCHANGED <<crossedMarkets, pairTodo>>
    /\ UNCHANGED <<pairMarkets, pairKeys, pairThresholds, pairCost, pairRefPrices, pairResult,
                   pairFirst>>
    /\ UNCHANGED <<poolVars, hopVars, wsVars, optVars, evalVars, bundleVars, dualVars, searchVars, volumeVars, connVars, fetchVars, takeVars>>

\* the sort and the return (Arbitrage.ts:490-493)
ReturnCrossedMarkets ==
    /\ pairPc = "loop"
    /\ pairTodo = <<>>
    /\ pairPc' = "returned"
    /\ pairResult' = SortCrossed(crossedMarkets)
    /\ UNCHANGED <<pairMarkets, pairKeys, pairThresholds, pairCost, pairRefPrices, pairTodo,
                   crossedMarkets, pairError, pairFirst>>
    /\ UNCHANGED <<poolVars, hopVars, wsVars, optVars, evalVars, bundleVars, dualVars, searchVars, volumeVars, connVars, fetchVars, takeVars>>

\* a second call of findArbitrageTrades on the same pools, keys and thresholds
\* once the first has settled; what the balanceOf requests of fetchWETHBalance
\* (Arbitrage.ts:918-940) give is that call's own, not the snapshot's
FindArbitrageTradesAgain(fails) ==
    /\ pairPc \in {"returned", "threw"}
    /\ pairFirst = <<>>
    /\ pairFirst' = <<[pc |-> pairPc, result |-> pairResult]>>
    /\ pairMarkets' = [m \in DOMAIN pairMarkets |->
                          [pairMarkets[m] EXCEPT !.balanceFails = fails[m]]]
    /\ pairPc' = "idle"
    /\ pairRefPrices' = <<>>
    /\ pairTodo' = <<>>
    /\ crossedMarkets' = <<>>
    /\ pairResult' = <<>>
    /\ pairError' = ""
    /\ UNCHANGED <<pairKeys, pairThresholds, pairCost>>
    /\ UNCHANGED <<poolVars, hopVars, wsVars, optVars, evalVars, bundleVars, dualVars, searchVars, volumeVars, connVars, fetchVars, takeVars>>

PairNext ==
    \/ FindArbitrageTrades
    \/ VisitPair
    \/ ReturnCrossedMarkets
    \/ \E fails \in [DOMAIN pairMarkets -> BOOLEAN] : FindArbitrageTradesAgain(fails)

(***************************************************************************)
(* Bundle execution  (src/src/Arbitrage.ts:655-733)                        *)
(* executeBundleWithRetry simulates the bundle and, when the simulation    *)
(* passes, sends it to the relay; a failed attempt is retried.             *)
(***************************************************************************)
\* largest MAX_RETRIES
MaxRetries == 3
\* largest coinbaseDiff, bundleGasPrice and totalGasUsed of a simulation
MaxCoinbaseDiff == 3
MaxGasPrice == 2
MaxGasUsed == 1
\* largest minProfitThreshold
MaxProfitThreshold == 1

\* what flashbotsProvider.simulate gives: a rejection, a response with an
\* error, or a simulation result
Simulations ==
    [kind : {"rejects", "error", "result"}, coinbaseDiff : 0..MaxCoinbaseDiff,
     bundleGasPrice : 1..MaxGasPrice, totalGasUsed : 0..MaxGasUsed]

\* what flashbotsProvider.sendBundle gives
Submissions == {"rejects", "error", "response"}

\* Mutant: the simulation result is not tested for profit.
simulateBundle_NoProfitTest(simulation, minProfitThreshold) ==
    IF simulation.kind = "rejects" THEN Throw("simulate rejected")
    ELSE IF simulation.kind = "error" THEN Throw("Simulation failed")
    ELSE Ok(simulation.coinbaseDiff - simulation.bundleGasPrice * simulation.totalGasUsed)

\* Arbitrage.simulateBundle (Arbitrage.ts:717-733): Ok of the profit, or what
\* it throws; lte of an undefined threshold throws
simulateBundle(simulation, minProfitThreshold) ==
    LET cost == simulation.bundleGasPrice * simulation.totalGasUsed
        profit == simulation.coinbaseDiff - cost
    IN  IF simulation.kind = "rejects" THEN Throw("simulate rejected")
        ELSE IF simulation.kind = "error" THEN Throw("Simulation failed")
        ELSE IF minProfitThreshold = Undefined THEN Throw("invalid BigNumber value")
        ELSE IF profit <= minProfitThreshold[1] THEN Throw("Bundle not profitable enough")
        ELSE Ok(profit)

BundleInit ==
    /\ bundleMaxRetries \in {Undefined} \cup {<<n>> : n \in 0..MaxRetries}
    /\ bundleThreshold \in {Undefined} \cup {<<t>> : t \in 0..MaxProfitThreshold}
    /\ bundlePc = "idle"
    /\ bundleI = 0
    /\ bundleLog = <<>>
    /\ bundleError = ""
    /\ bundleResponse = <<>>

BundleIdle ==
    /\ bundleMaxRetries = Undefined
    /\ bundleThreshold = Undefined
    /\ bundlePc = "idle"
    /\ bundleI = 0
    /\ bundleLog = <<>>
    /\ bundleError = ""
    /\ bundleResponse = <<>>

\* the loop test i < this.MAX_RETRIES (Arbitrage.ts:659): false for an
\* undefined MAX_RETRIES
LoopTest(i) == bundleMaxRetries # Undefined /\ i < bundleMaxRetries[1]

\* the catch block (Arbitrage.ts:685-694): rethrow on the last attempt, else
\* go on with the next pass of the loop
CatchAttempt(err) ==
    /\ bundleError' = err
    /\ IF bundleMaxRetries # Undefined /\ bundleI = bundleMaxRetries[1] - 1
       THEN /\ bundlePc' = "threw"
            /\ UNCHANGED <<bundleI, bundleResponse>>
       ELSE /\ bundleI' = bundleI + 1
            /\ IF LoopTest(bundleI + 1)
               THEN /\ bundlePc' = "simulate"
                    /\ UNCHANGED bundleResponse
               ELSE /\ bundlePc' = "returned"
                    /\ bundleResponse' = Null

\* entry of executeBundleWithRetry (Arbitrage.ts:655-659, 696)
ExecuteBundleWithRetry ==
    /\ bundlePc = "idle"
    /\ IF LoopTest(0)
       THEN /\ bundlePc' = "simulate"
            /\ UNCHANGED bundleResponse
       ELSE /\ bundlePc' = "returned"
            /\ bundleResponse' = Null
    /\ UNCHANGED <<bundleMaxRetries, bundleThreshold, bundleI, bundleLog, bundleError>>
    /\ UNCHANGED <<poolVars, hopVars, wsVars, optVars, evalVars, pairVars, dualVars, searchVars, volumeVars, connVars, fetchVars, takeVars>>

\* await this.simulateBundle(bundle, blockNumber) (Arbitrage.ts:662)
SimulateBundle(simulation) ==
    /\ bundlePc = "simulate"
    /\ LET r == simulateBundle(simulation, bundleThreshold)
       IN  /\ bundleLog' = Append(bundleLog,
                               [call |-> "simulate", attempt |-> bundleI, ok |-> r.ok,
                                profit |-> r.val, err |-> r.err])
           /\ IF r.ok
              THEN /\ bundlePc' = "send"
                   /\ UNCHANGED <<bundleI, bundleError, bundleResponse>>
              ELSE CatchAttempt(r.err)
    /\ UNCHANGED <<bundleMaxRetries, bundleThreshold>>
    /\ UNCHANGED <<poolVars, hopVars, wsVars, optVars, evalVars, pairVars, dualVars, searchVars, volumeVars, connVars, fetchVars, takeVars>>

\* await this.flashbotsProvider.sendBundle(...) and the test of its response
\* (Arbitrage.ts:665-683)
SendBundle(submission) ==
    /\ bundlePc = "send"
    /\ LET err == IF submission = "rejects" THEN "sendBundle rejected"
                  ELSE IF submission = "error" THEN "relay error" ELSE ""
       IN  /\ bundleLog' = Append(bundleLog,
                               [call |-> "sendBundle", attempt |-> bundleI,
                                ok |-> (submission = "response"), profit |-> 0,
                                err |-> err])
           /\ IF submission = "response"
              THEN /\ bundlePc' = "returned"
                   /\ bundleResponse' = <<"response">>
                   /\ UNCHANGED <<bundleI, bundleError>>
              ELSE CatchAttempt(err)
    /\ UNCHANGED <<bundleMaxRetries, bundleThreshold>>
    /\ UNCHANGED <<poolVars, hopVars, wsVars, optVars, evalVars, pairVars, dualVars, searchVars, volumeVars, connVars, fetchVars, takeVars>>

BundleNext ==
    \/ ExecuteBundleWithRetry
    \/ \E simulation \in Simulations : SimulateBundle(simulation)
    \/ \E submission \in Submissions : SendBundle(submission)

(***************************************************************************)
(* One evaluation of the dual objective                                    *)
(* (src/src/optimization/HybridOptimizer.ts:74-103)                        *)
(***************************************************************************)
\* pools of the network
MaxDualCfmms == 3

DualVectors == UNION {[1..n -> 0..MaxInitialV] : n \in 0..MaxDualCfmms}

DualInit ==
    /\ dualCfmms \in UNION {[1..n -> CfmmReserveChoices] : n \in 0..MaxDualCfmms}
    /\ dualV = <<>>
    /\ dualOut = <<>>

DualIdle ==
    /\ dualCfmms = <<>>
    /\ dualV = <<>>
    /\ dualOut = <<>>

\* await this.dualObjective(v)
DualObjective(v) ==
    /\ dualOut = <<>>
    /\ dualV' = v
    /\ dualOut' = <<dualObjective(dualCfmms, v)>>
    /\ UNCHANGED dualCfmms
    /\ UNCHANGED <<poolVars, hopVars, wsVars, optVars, evalVars, pairVars, bundleVars, searchVars, volumeVars, connVars, fetchVars, takeVars>>

DualNext == \E v \in DualVectors : DualObjective(v)

(***************************************************************************)
(* The bounds search, pass by pass                                         *)
(* (src/src/optimization/HybridOptimizer.ts:41-72)                         *)
(***************************************************************************)
\* pools of the search: those of the optimizer runs, one whose value cancels
\* the utility at a midpoint, and one without reserves
SearchReserveChoices == CfmmReserveChoices \cup {<<10, 250>>, NoReserves}

NoPass == [outcome |-> "none", value |-> 0, mid |-> 0, left |-> 0, right |-> 0]

SearchInit ==
    /\ searchCfmms \in UNION {[1..n -> SearchReserveChoices] : n \in 0..MaxCfmms}
    /\ searchV = <<>>
    /\ searchPc = "idle"
    /\ searchI = 0
    /\ searchLeft = 0
    /\ searchRight = 0
    /\ searchLower = <<>>
    /\ searchUpper = <<>>
    /\ searchLast = NoPass

SearchIdle ==
    /\ searchCfmms = <<>>
    /\ searchV = <<>>
    /\ searchPc = "idle"
    /\ searchI = 0
    /\ searchLeft = 0
    /\ searchRight = 0
    /\ searchLower = <<>>
    /\ searchUpper = <<>>
    /\ searchLast = NoPass

\* findActiveInterval(v) up to the first pass (HybridOptimizer.ts:41-48)
FindActiveInterval(v) ==
    /\ searchPc = "idle"
    /\ searchV' = v
    /\ searchLower' = [i \in DOMAIN v |-> 0]
    /\ searchUpper' = [i \in DOMAIN v |-> MaxUint]
    /\ IF Len(v) = 0
       THEN /\ searchPc' = "returned"
            /\ UNCHANGED <<searchI, searchLeft, searchRight>>
       ELSE /\ searchPc' = "search"
            /\ searchI' = 1
            /\ searchLeft' = 0
            /\ searchRight' = MaxUint
    /\ UNCHANGED <<searchCfmms, searchLast>>
    /\ UNCHANGED <<poolVars, hopVars, wsVars, optVars, evalVars, pairVars, bundleVars, dualVars, volumeVars, connVars, fetchVars, takeVars>>

\* one pass of the while loop (HybridOptimizer.ts:50-66)
MidpointPass ==
    /\ searchPc = "search"
    /\ searchRight - searchLeft > Precision
    /\ LET mid == searchLeft + TDiv(searchRight - searchLeft, 2)
           testV == [searchV EXCEPT ![searchI] = mid]
           r == dualObjective(searchCfmms, testV)
       IN  /\ IF r.ok
              THEN IF r.val.value > 0
                   THEN /\ searchRight' = mid
                        /\ UNCHANGED searchLeft
                   ELSE /\ searchLeft' = mid
                        /\ UNCHANGED searchRight
              ELSE /\ searchRight' = mid
                   /\ UNCHANGED searchLeft
           /\ searchLast' = [outcome |-> IF r.ok THEN "value" ELSE "threw",
                             value |-> IF r.ok THEN r.val.value ELSE 0, mid |-> mid,
                             left |-> searchLeft', right |-> searchRight']
    /\ UNCHANGED <<searchCfmms, searchV, searchPc, searchI, searchLower, searchUpper>>
    /\ UNCHANGED <<poolVars, hopVars, wsVars, optVars, evalVars, pairVars, bundleVars, dualVars, volumeVars, connVars, fetchVars, takeVars>>

\* the end of the while loop of one coordinate (HybridOptimizer.ts:50, 68-71)
CoordinateDone ==
    /\ searchPc = "search"
    /\ ~(searchRight - searchLeft > Precision)
    /\ searchUpper' = [searchUpper EXCEPT ![searchI] = searchRight * 2]
    /\ IF searchI = Len(searchV)
       THEN /\ searchPc' = "returned"
            /\ UNCHANGED <<searchI, searchLeft, searchRight>>
       ELSE /\ searchI' = searchI + 1
            /\ searchLeft' = 0
            /\ searchRight' = searchUpper[searchI + 1]
            /\ UNCHANGED searchPc
    /\ UNCHANGED <<searchCfmms, searchV, searchLower, searchLast>>
    /\ UNCHANGED <<poolVars, hopVars, wsVars, optVars, evalVars, pairVars, bundleVars, dualVars, volumeVars, connVars, fetchVars, takeVars>>

SearchNext ==
    \/ \E v \in InitialVectors : FindActiveInterval(v)
    \/ MidpointPass
    \/ CoordinateDone

(***************************************************************************)
(* One call of calculateOptimalVolume (src/src/Arbitrage.ts:846-912)       *)
(***************************************************************************)
MaxVolumeProfit == 6
MaxVolumeCost == 1
MaxVolumeThreshold == 5

\* the arguments and what the call reads: the profit per unit, the value of
\* each price impact and trading fee, this.thresholds.minProfitThreshold, and
\* the two reserves of the token (up to one above the safe integers)
VolumeInit ==
    /\ volumeArgs \in [profit : 1..MaxVolumeProfit,
                       cost : 0..MaxVolumeCost,
                       threshold : {Undefined} \cup {<<t>> : t \in 0..MaxVolumeThreshold},
                       availableLiquidityBuy : {0, 3, MaxTradeSize, MAX_SAFE_INTEGER + 1},
                       availableLiquiditySell : {0, 2, MaxTradeSize + 1, MAX_SAFE_INTEGER + 1}]
    /\ volumePc = "idle"
    /\ volumeFound = 0
    /\ volumeOut = 0

VolumeIdle ==
    /\ volumeArgs = [profit |-> 0, cost |-> 0, threshold |-> Undefined,
                     availableLiquidityBuy |-> 0, availableLiquiditySell |-> 0]
    /\ volumePc = "idle"
    /\ volumeFound = 0
    /\ volumeOut = 0

\* the binary search (Arbitrage.ts:875-898)
SearchVolume ==
    /\ volumePc = "idle"
    /\ LET found == VolumeSearch(1, MaxTradeSize, 0, 0, volumeArgs.profit, volumeArgs.cost,
                                 volumeArgs.threshold)
       IN  IF found.ok
           THEN /\ volumePc' = "searched"
                /\ volumeFound' = found.val
           ELSE /\ volumePc' = "threw"
                /\ UNCHANGED volumeFound
    /\ UNCHANGED <<volumeArgs, volumeOut>>
    /\ UNCHANGED <<poolVars, hopVars, wsVars, optVars, evalVars, pairVars, bundleVars, dualVars, searchVars, connVars, fetchVars, takeVars>>

\* the clamp to the liquidity of both pools and the return (Arbitrage.ts:900-911)
ReturnVolume ==
    /\ volumePc = "searched"
    /\ LET clamped == ClampVolume(volumeFound, volumeArgs.availableLiquidityBuy,
                                  volumeArgs.availableLiquiditySell)
       IN  IF clamped.ok
           THEN /\ volumePc' = "returned"
                /\ volumeOut' = clamped.val
           ELSE /\ volumePc' = "threw"
                /\ UNCHANGED volumeOut
    /\ UNCHANGED <<volumeArgs, volumeFound>>
    /\ UNCHANGED <<poolVars, hopVars, wsVars, optVars, evalVars, pairVars, bundleVars, dualVars, searchVars, connVars, fetchVars, takeVars>>

VolumeNext == SearchVolume \/ ReturnVolume

(***************************************************************************)
(* Reconnection of the websocket  (src/src/websocketmanager.ts:54-122,     *)
(* 302-316)                                                                *)
(* initializeWebSocket creates a socket and registers open, close and      *)
(* error handlers on it; close and error both call handleReconnection,     *)
(* which counts the call and arms a timer that calls initializeWebSocket   *)
(* again, or exits the process at the cap. The handlers of a replaced      *)
(* socket stay registered. A socket of the ws package emits 'error' for a  *)
(* failed handshake or a broken connection and always emits 'close' after  *)
(* it; an open socket the peer closes emits 'close' alone.                 *)
(***************************************************************************)
MAX_RECONNECT_ATTEMPTS == 5
\* sockets created in one behaviour
MaxSockets == 6

\* new WebSocket(wsUrl, ...) (websocketmanager.ts:57-62); byTimer tells the
\* sockets a reconnection created from the one of the constructor
NewSocket(byTimer) == [state |-> "connecting", scheduled |-> 0, byTimer |-> byTimer]

\* the constructor has called initializeWebSocket (websocketmanager.ts:42-52)
ConnInit ==
    /\ connSockets = <<NewSocket(FALSE)>>
    /\ reconnectAttempts = 0
    /\ connTimers = 0
    /\ connExited = FALSE
    /\ connFailed = 0

ConnIdle ==
    /\ connSockets = <<>>
    /\ reconnectAttempts = 0
    /\ connTimers = 0
    /\ connExited = FALSE
    /\ connFailed = 0

\* handleReconnection (websocketmanager.ts:302-316) called by a handler of
\* socket s that leaves the socket in newState
HandleReconnection(s, newState) ==
    IF reconnectAttempts < MAX_RECONNECT_ATTEMPTS
    THEN /\ reconnectAttempts' = reconnectAttempts + 1
         /\ connTimers' = connTimers + 1
         /\ connSockets' = [connSockets EXCEPT ![s].state = newState,
                                               ![s].scheduled = @ + 1]
         /\ UNCHANGED connExited
    ELSE /\ connExited' = TRUE
         /\ connSockets' = [connSockets EXCEPT ![s].state = newState]
         /\ UNCHANGED <<reconnectAttempts, connTimers>>

\* ws.on('open') (websocketmanager.ts:64-68)
OnOpen(s) ==
    /\ ~connExited
    /\ connSockets[s].state = "connecting"
    /\ connSockets' = [connSockets EXCEPT ![s].state = "open"]
    /\ reconnectAttempts' = 0
    /\ connFailed' = 0
    /\ UNCHANGED <<connTimers, connExited>>
    /\ UNCHANGED <<poolVars, hopVars, wsVars, optVars, evalVars, pairVars, bundleVars, dualVars, searchVars, volumeVars, fetchVars, takeVars>>

\* ws.on('error') (websocketmanager.ts:105-110): the handshake failed or the
\* connection broke
OnError(s) ==
    /\ ~connExited
    /\ connSockets[s].state \in {"connecting", "open"}
    /\ HandleReconnection(s, "errored")
    /\ connFailed' = IF connSockets[s].state = "connecting" /\ connSockets[s].byTimer
                     THEN connFailed + 1 ELSE connFailed
    /\ UNCHANGED <<poolVars, hopVars, wsVars, optVars, evalVars, pairVars, bundleVars, dualVars, searchVars, volumeVars, fetchVars, takeVars>>

\* ws.on('close') (websocketmanager.ts:97-103): after the socket's error, or
\* when the peer closes an open connection
OnClose(s) ==
    /\ ~connExited
    /\ connSockets[s].state \in {"errored", "open"}
    /\ HandleReconnection(s, "closed")
    /\ UNCHANGED connFailed
    /\ UNCHANGED <<poolVars, hopVars, wsVars, optVars, evalVars, pairVars, bundleVars, dualVars, searchVars, volumeVars, fetchVars, takeVars>>

\* the setTimeout callback of handleReconnection (websocketmanager.ts:309-311)
\* calls initializeWebSocket
ReconnectTimer ==
    /\ ~connExited
    /\ connTimers > 0
    /\ Len(connSockets) < MaxSockets
    /\ connTimers' = connTimers - 1
    /\ connSockets' = Append(connSockets, NewSocket(TRUE))
    /\ UNCHANGED <<reconnectAttempts, connExited, connFailed>>
    /\ UNCHANGED <<poolVars, hopVars, wsVars, optVars, evalVars, pairVars, bundleVars, dualVars, searchVars, volumeVars, fetchVars, takeVars>>

ConnNext ==
    \/ \E s \in 1..Len(connSockets) : OnOpen(s)
    \/ \E s \in 1..Len(connSockets) : OnError(s)
    \/ \E s \in 1..Len(connSockets) : OnClose(s)
    \/ ReconnectTimer


(***************************************************************************)
(* Balance fetching  (src/src/Arbitrage.ts:914-942)                        *)
(* fetchWETHBalance calls balanceOf up to `retries` times, one attempt     *)
(* after the other with a growing delay in between.                        *)
(***************************************************************************)
\* largest retries argument
MaxFetchRetries == 4
\* largest balance a call resolves with
MaxBalance == 1

\* the arguments of a call and what each balanceOf request will give
FetchInit ==
    /\ fetchRetries \in 0..MaxFetchRetries
    /\ fetchOutcomes \in [1..MaxFetchRetries + 1 -> {Null} \cup {<<b>> : b \in 0..MaxBalance}]
    /\ fetchAttempt = 0
    /\ fetchCalls = 0
    /\ fetchPc = "idle"
    /\ fetchResult = Null

FetchIdle ==
    /\ fetchRetries = 0
    /\ fetchOutcomes = <<>>
    /\ fetchAttempt = 0
    /\ fetchCalls = 0
    /\ fetchPc = "idle"
    /\ fetchResult = Null

InLoop_OneMore(attempt, retries) == attempt <= retries + 1

\* the loop condition (Arbitrage.ts:920)
InLoop(attempt, retries) == attempt <= retries

\* the call up to the loop (Arbitrage.ts:914-920)
FetchWETHBalanceCalled ==
    /\ fetchPc = "idle"
    /\ fetchOutcomes # <<>>
    /\ fetchAttempt' = 1
    /\ fetchPc' = "loop"
    /\ UNCHANGED <<fetchRetries, fetchOutcomes, fetchCalls, fetchResult>>
    /\ UNCHANGED <<poolVars, hopVars, wsVars, optVars, evalVars, pairVars, bundleVars, dualVars, searchVars, volumeVars, connVars, takeVars>>

\* one pass of the loop body (Arbitrage.ts:921-939): the balance is returned,
\* or the rejection is caught and the call waits or returns null
BalanceOfSettled ==
    /\ fetchPc = "loop"
    /\ InLoop(fetchAttempt, fetchRetries)
    /\ fetchCalls' = fetchCalls + 1
    /\ IF fetchOutcomes[fetchAttempt] # Null
       THEN /\ fetchResult' = fetchOutcomes[fetchAttempt]
            /\ fetchPc' = "returned"
       ELSE IF fetchAttempt < fetchRetries
       THEN /\ fetchPc' = "delay"
            /\ UNCHANGED fetchResult
       ELSE /\ fetchResult' = Null
            /\ fetchPc' = "returned"
    /\ UNCHANGED <<fetchRetries, fetchOutcomes, fetchAttempt>>
    /\ UNCHANGED <<poolVars, hopVars, wsVars, optVars, evalVars, pairVars, bundleVars, dualVars, searchVars, volumeVars, connVars, takeVars>>

\* the delay has passed (Arbitrage.ts:932) and the loop counts on (920)
DelayElapsed ==
    /\ fetchPc = "delay"
    /\ fetchAttempt' = fetchAttempt + 1
    /\ fetchPc' = "loop"
    /\ UNCHANGED <<fetchRetries, fetchOutcomes, fetchCalls, fetchResult>>
    /\ UNCHANGED <<poolVars, hopVars, wsVars, optVars, evalVars, pairVars, bundleVars, dualVars, searchVars, volumeVars, connVars, takeVars>>

\* the loop is left without a pass returning (Arbitrage.ts:941)
ReturnNull ==
    /\ fetchPc = "loop"
    /\ ~InLoop(fetchAttempt, fetchRetries)
    /\ fetchResult' = Null
    /\ fetchPc' = "returned"
    /\ UNCHANGED <<fetchRetries, fetchOutcomes, fetchAttempt, fetchCalls>>
    /\ UNCHANGED <<poolVars, hopVars, wsVars, optVars, evalVars, pairVars, bundleVars, dualVars, searchVars, volumeVars, connVars, takeVars>>

FetchNext ==
    \/ FetchWETHBalanceCalled
    \/ BalanceOfSettled
    \/ DelayElapsed
    \/ ReturnNull


(***************************************************************************)
(* Execution attempts  (src/src/Arbitrage.ts:356-393)                      *)
(* takeCrossedMarkets goes through the opportunities in order and calls    *)
(* executeArbitrageTrade up to maxAttempts times for each; the call and    *)
(* transaction.wait(1) are awaited inside one try block.                   *)
(***************************************************************************)
\* most opportunities in a call
MaxOpportunities == 3
\* largest maxAttempts argument (the handlers pass 3, websocketmanager.ts:247)
MaxAttempts == 3

\* the arguments of a call
TakeInit ==
    /\ takeMarkets \in 0..MaxOpportunities
    /\ takeMaxAttempts \in 0..MaxAttempts
    /\ takeMarket = 0
    /\ takeAttempt = 0
    /\ takePc = "idle"
    /\ takeCalls = [m \in 1..takeMarkets |-> 0]
    /\ takeReturned = {}
    /\ takeAgain = {}

TakeIdle ==
    /\ takeMarkets = 0
    /\ takeMaxAttempts = 0
    /\ takeMarket = 0
    /\ takeAttempt = 0
    /\ takePc = "done"
    /\ takeCalls = <<>>
    /\ takeReturned = {}
    /\ takeAgain = {}

\* the loops go on to pass `attempt` for opportunity `market`
\* (Arbitrage.ts:361-362): the position of the next executeArbitrageTrade
\* call, or the end of the call; an inner loop that is over hands on to the
\* next opportunity
RECURSIVE LoopFrom(_, _)
LoopFrom(market, attempt) ==
    IF market > takeMarkets THEN [pc |-> "done", market |-> market, attempt |-> attempt]
    ELSE IF attempt <= takeMaxAttempts
    THEN [pc |-> "execute", market |-> market, attempt |-> attempt]
    ELSE LoopFrom(market + 1, 1)

GoTo(position) ==
    /\ takePc' = position.pc
    /\ takeMarket' = position.market
    /\ takeAttempt' = position.attempt

\* the catch block (Arbitrage.ts:375-389): after the last attempt the inner
\* loop ends, otherwise the retry delay is awaited
Caught ==
    IF takeAttempt = takeMaxAttempts
    THEN GoTo(LoopFrom(takeMarket, takeAttempt + 1))
    ELSE /\ takePc' = "delay"
         /\ UNCHANGED <<takeMarket, takeAttempt>>

\* the call up to the first pass (Arbitrage.ts:356-362)
TakeCrossedMarkets ==
    /\ takePc = "idle"
    /\ GoTo(LoopFrom(1, 1))
    /\ UNCHANGED <<takeMarkets, takeMaxAttempts, takeCalls, takeReturned, takeAgain>>
    /\ UNCHANGED <<poolVars, hopVars, wsVars, optVars, evalVars, pairVars, bundleVars, dualVars, searchVars, volumeVars, connVars, fetchVars>>

\* await this.executeArbitrageTrade(market, currentBlock) settles
\* (Arbitrage.ts:364-365): with a transaction, with null, or rejecting
ExecuteArbitrageTradeSettled(outcome) ==
    /\ takePc = "execute"
    /\ takeCalls' = [takeCalls EXCEPT ![takeMarket] = @ + 1]
    /\ takeAgain' = IF takeMarket \in takeReturned THEN takeAgain \cup {takeMarket}
                    ELSE takeAgain
    /\ CASE outcome = "transaction" ->
                /\ takeReturned' = takeReturned \cup {takeMarket}
                /\ takePc' = "wait"
                /\ UNCHANGED <<takeMarket, takeAttempt>>
         [] outcome = "null" ->
                /\ GoTo(LoopFrom(takeMarket, takeAttempt + 1))
                /\ UNCHANGED takeReturned
         [] outcome = "rejects" ->
                /\ Caught
                /\ UNCHANGED takeReturned
    /\ UNCHANGED <<takeMarkets, takeMaxAttempts>>
    /\ UNCHANGED <<poolVars, hopVars, wsVars, optVars, evalVars, pairVars, bundleVars, dualVars, searchVars, volumeVars, connVars, fetchVars>>

\* await transaction.wait(1) settles (Arbitrage.ts:371-372): resolved, the
\* break leaves the inner loop; rejected, the catch block runs
TransactionWaitSettled(resolves) ==
    /\ takePc = "wait"
    /\ IF resolves THEN GoTo(LoopFrom(takeMarket + 1, 1)) ELSE Caught
    /\ UNCHANGED <<takeMarkets, takeMaxAttempts, takeCalls, takeReturned, takeAgain>>
    /\ UNCHANGED <<poolVars, hopVars, wsVars, optVars, evalVars, pairVars, bundleVars, dualVars, searchVars, volumeVars, connVars, fetchVars>>

\* the retry delay has passed (Arbitrage.ts:388) and the inner loop counts on
RetryDelayElapsed ==
    /\ takePc = "delay"
    /\ GoTo(LoopFrom(takeMarket, takeAttempt + 1))
    /\ UNCHANGED <<takeMarkets, takeMaxAttempts, takeCalls, takeReturned, takeAgain>>
    /\ UNCHANGED <<poolVars, hopVars, wsVars, optVars, evalVars, pairVars, bundleVars, dualVars, searchVars, volumeVars, connVars, fetchVars>>

TakeNext ==
    \/ TakeCrossedMarkets
    \/ \E outcome \in {"transaction", "null", "rejects"} : ExecuteArbitrageTradeSettled(outcome)
    \/ \E resolves \in BOOLEAN : TransactionWaitSettled(resolves)
    \/ RetryDelayElapsed


(***************************************************************************)
(* Specifications                                                          *)
(***************************************************************************)
InitQuote == PoolInit /\ HopIdle /\ WsIdle /\ OptIdle /\ PairIdle /\ BundleIdle /\ DualIdle /\ SearchIdle /\ VolumeIdle /\ ConnIdle /\ FetchIdle /\ TakeIdle
SpecQuote == InitQuote /\ [][QuoteNext]_vars

InitArb == PoolInit /\ HopIdle /\ WsIdle /\ OptIdle /\ PairIdle /\ BundleIdle /\ DualIdle /\ SearchIdle /\ VolumeIdle /\ ConnIdle /\ FetchIdle /\ TakeIdle
SpecArb == InitArb /\ [][ArbNext]_vars

InitHop == HopInit /\ PoolIdle /\ WsIdle /\ OptIdle /\ PairIdle /\ BundleIdle /\ DualIdle /\ SearchIdle /\ VolumeIdle /\ ConnIdle /\ FetchIdle /\ TakeIdle
SpecHop == InitHop /\ [][HopNext]_vars

InitHopRing == HopRingInit /\ PoolIdle /\ WsIdle /\ OptIdle /\ PairIdle /\ BundleIdle /\ DualIdle /\ SearchIdle /\ VolumeIdle /\ ConnIdle /\ FetchIdle /\ TakeIdle
SpecHopRing == InitHopRing /\ [][HopNext]_vars

InitWs == WsInit /\ PoolIdle /\ HopIdle /\ OptIdle /\ PairIdle /\ BundleIdle /\ DualIdle /\ SearchIdle /\ VolumeIdle /\ ConnIdle /\ FetchIdle /\ TakeIdle
SpecWs == InitWs /\ [][WsNext]_vars

InitOpt == OptInit /\ PoolIdle /\ HopIdle /\ WsIdle /\ PairIdle /\ BundleIdle /\ DualIdle /\ SearchIdle /\ VolumeIdle /\ ConnIdle /\ FetchIdle /\ TakeIdle
SpecOpt == InitOpt /\ [][OptNext]_vars

InitOptAny == OptAnyInit /\ PoolIdle /\ HopIdle /\ WsIdle /\ PairIdle /\ BundleIdle /\ DualIdle /\ SearchIdle /\ VolumeIdle /\ ConnIdle /\ FetchIdle /\ TakeIdle
SpecOptAny == InitOptAny /\ [][OptNext]_vars

\* runs of the optimizer on two pools while the pools' reserves are updated
OptRefreshNext ==
    \/ OptNext
    \/ \E k \in 1..MaxCfmms : \E reserves \in CfmmReserveChoices : UpdateReserves(k, reserves)

InitOptRefresh == OptRefreshInit /\ PoolIdle /\ HopIdle /\ WsIdle /\ PairIdle /\ BundleIdle /\ DualIdle /\ SearchIdle /\ VolumeIdle /\ ConnIdle /\ FetchIdle /\ TakeIdle
SpecOptRefresh == InitOptRefresh /\ [][OptRefreshNext]_vars

InitPair == PairInit /\ PoolIdle /\ HopIdle /\ WsIdle /\ OptIdle /\ BundleIdle /\ DualIdle /\ SearchIdle /\ VolumeIdle /\ ConnIdle /\ FetchIdle /\ TakeIdle
SpecPair == InitPair /\ [][PairNext]_vars

InitBundle == BundleInit /\ PoolIdle /\ HopIdle /\ WsIdle /\ OptIdle /\ PairIdle /\ DualIdle /\ SearchIdle /\ VolumeIdle /\ ConnIdle /\ FetchIdle /\ TakeIdle
SpecBundle == InitBundle /\ [][BundleNext]_vars

InitDual == DualInit /\ PoolIdle /\ HopIdle /\ WsIdle /\ OptIdle /\ PairIdle /\ BundleIdle /\ SearchIdle /\ VolumeIdle /\ ConnIdle /\ FetchIdle /\ TakeIdle
SpecDual == InitDual /\ [][DualNext]_vars

InitSearch == SearchInit /\ PoolIdle /\ HopIdle /\ WsIdle /\ OptIdle /\ PairIdle /\ BundleIdle /\ DualIdle /\ VolumeIdle /\ ConnIdle /\ FetchIdle /\ TakeIdle
SpecSearch == InitSearch /\ [][SearchNext]_vars

InitVolume == VolumeInit /\ PoolIdle /\ HopIdle /\ WsIdle /\ OptIdle /\ PairIdle /\ BundleIdle /\ DualIdle /\ SearchIdle /\ ConnIdle /\ FetchIdle /\ TakeIdle
SpecVolume == InitVolume /\ [][VolumeNext]_vars

\* the connection of one websocket manager from its construction on
InitConn == ConnInit /\ PoolIdle /\ HopIdle /\ WsIdle /\ OptIdle /\ PairIdle /\ BundleIdle /\ DualIdle /\ SearchIdle /\ VolumeIdle /\ FetchIdle /\ TakeIdle
SpecConn == InitConn /\ [][ConnNext]_vars

\* one call of fetchWETHBalance
InitFetch == FetchInit /\ PoolIdle /\ HopIdle /\ WsIdle /\ OptIdle /\ PairIdle /\ BundleIdle /\ DualIdle /\ SearchIdle /\ VolumeIdle /\ ConnIdle /\ TakeIdle
SpecFetch == InitFetch /\ [][FetchNext]_vars

\* one call of takeCrossedMarkets
InitTake == TakeInit /\ PoolIdle /\ HopIdle /\ WsIdle /\ OptIdle /\ PairIdle /\ BundleIdle /\ DualIdle /\ SearchIdle /\ VolumeIdle /\ ConnIdle /\ FetchIdle
SpecTake == InitTake /\ [][TakeNext]_vars

\* one call of each detector, each on its own pools
InitSort == HopSortInit /\ PairSortInit /\ PoolIdle /\ WsIdle /\ OptIdle /\ BundleIdle /\ DualIdle /\ SearchIdle /\ VolumeIdle /\ ConnIdle /\ FetchIdle /\ TakeIdle
SortNext == HopNext \/ FindArbitrageTrades \/ VisitPair \/ ReturnCrossedMarkets
SpecSort == InitSort /\ [][SortNext]_vars

(***************************************************************************)
(* Properties of the pool functions                                        *)
(***************************************************************************)
\* C7: the pool arbitrage operation returns an all-zero delta and a zero value
\* when the price vector implies no profitable trade, in particular when the
\* two prices are equal.
C7_ZeroTradeAtEqualPrices ==
    (arbCall # NoCall /\ Len(arbCall.prices) = 2 /\ arbCall.prices[1] = arbCall.prices[2])
        => /\ arbCall.res.ok
           /\ arbCall.res.val.delta = <<0, 0>>
           /\ arbCall.res.val.value = 0

\* C8: for positive reserves and non-negative amountIn, getOutputAmount does not
\* decrease when amountIn grows and its result is strictly less than reserveOut.
C8_OutputMonotoneBelowReserve ==
    (cfmmReserves[1] > 0 /\ cfmmReserves[2] > 0)
        => \A a \in DOMAIN quoted :
              /\ quoted[a].ok
              /\ quoted[a].val < cfmmReserves[2]
              /\ \A b \in DOMAIN quoted : a <= b => quoted[a].val <= quoted[b].val

\* C8 witness: two quotes on a pool with positive reserves, the larger amount
\* giving the larger output.
C8_Witness ==
    /\ cfmmReserves[1] > 0 /\ cfmmReserves[2] > 0
    /\ \E a, b \in DOMAIN quoted :
          a < b /\ quoted[a].ok /\ quoted[b].ok /\ quoted[a].val < quoted[b].val

\* C9: getOutputAmount fails with InvalidReserves, and returns no amount, when
\* reserveIn or reserveOut is zero.
C9_ZeroReserveRejected ==
    (cfmmReserves[1] = 0 \/ cfmmReserves[2] = 0)
        => \A a \in DOMAIN quoted : ~quoted[a].ok /\ quoted[a].err = "InvalidReserves"

(***************************************************************************)
(* Properties of the multi-hop search                                      *)
(***************************************************************************)
SeqToSet(s) == {s[i] : i \in 1..Len(s)}

\* the cycles recorded so far and the cycles returned
Cycles == SeqToSet(opportunities) \cup SeqToSet(hopResult)

\* C3: in every cycle recorded or returned, the token sequence starts and ends
\* with the start token, the start token does not occur in between, and no
\* other token occurs twice.
C3_CycleTokensSimple ==
    \A c \in Cycles :
        LET t == c.tokens
        IN  /\ Len(t) >= 2
            /\ t[1] = WETH_ADDRESS
            /\ t[Len(t)] = WETH_ADDRESS
            /\ \A j \in 2..(Len(t) - 1) :
                  /\ t[j] # WETH_ADDRESS
                  /\ \A k \in 2..(Len(t) - 1) : j # k => t[j] # t[k]

\* C3 witness: a returned cycle through two intermediate tokens.
C3_Witness ==
    /\ hopPc = "done"
    /\ \E i \in 1..Len(hopResult) : Len(hopResult[i].tokens) = 4

\* C4: every cycle recorded or returned has at most MAX_HOPS pools, and no
\* findPaths activation is deeper than MAX_HOPS.
C4_HopsBounded ==
    /\ \A c \in Cycles : Len(c.markets) <= MAX_HOPS
    /\ \A i \in 1..Len(stack) : stack[i].depth <= MAX_HOPS

\* C4 witness: an activation at depth MAX_HOPS that is not on the start token and
\* has a pool to go on with: the depth limit is what stops the branch.
C4_Witness ==
    /\ hopPc = "call"
    /\ Top.depth = MAX_HOPS
    /\ Top.token # WETH_ADDRESS
    /\ \E i \in 1..Len(hopMarkets) :
          hopMarkets[i].tokens \in {<<Top.token, "WETH">>, <<"WETH", Top.token>>}

\* What comes back when the unit bought on pool i is sold on pool j (0 when a
\* leg yields nothing).
RoundTrip(i, j) ==
    LET out == EdgeOutput(i, "WETH", "X", 0, 0)
    IN  IF ~out.ok \/ out.val <= 0 THEN 0
        ELSE LET back == EdgeOutput(j, "X", "WETH", 1, out.val)
             IN  IF ~back.ok THEN 0 ELSE back.val

\* two WETH/X pools, pool 1 then pool 2 profitable, every other round trip not
TwoPoolTriangle ==
    /\ Len(hopMarkets) = 2
    /\ hopFailing = 0
    /\ \A i \in 1..2 : hopMarkets[i].tokens = <<"WETH", "X">>
    /\ RoundTrip(1, 2) > InitialAmount
    /\ RoundTrip(1, 1) < InitialAmount
    /\ RoundTrip(2, 1) < InitialAmount
    /\ RoundTrip(2, 2) < InitialAmount

\* C5: on the two-pool triangle the search returns exactly one opportunity, of
\* exactly two pools, pool 1 then pool 2.
C5_TriangleOneCycle ==
    (TwoPoolTriangle /\ hopPc \in {"done", "failed"})
        => /\ hopPc = "done"
           /\ Len(hopResult) = 1
           /\ hopResult[1].markets = <<1, 2>>
           /\ hopResult[1].expectedProfit = RoundTrip(1, 2) - InitialAmount

\* C5 witness: the search has ended on a two-pool triangle.
C5_Witness == TwoPoolTriangle /\ hopPc = "done"

(***************************************************************************)
(* Properties of the websocket manager                                     *)
(***************************************************************************)
\* C2: at most one evaluation cycle (evaluateMarkets followed by
\* takeCrossedMarkets) is in flight at any time.
C2_OneCycleInFlight == Cardinality(CyclesInFlight) <= 1

(***************************************************************************)
(* Properties of the dual optimizer                                        *)
(***************************************************************************)
\* C1: after every iteration of optimize, whatever their number, the memory
\* holds at most options.memory triples.
C1_MemoryWithinWindow == Len(optMemory) <= optOptions.memory

\* more pairs were pushed than the window holds, and the window is full
C1_Witness ==
    /\ optOptions.memory = MaxMemory
    /\ optPushed > optOptions.memory
    /\ optIteration > optOptions.memory
    /\ Len(optMemory) = optOptions.memory

\* C6: with no pools and the quadratic utility conjugate, optimize returns
\* the zero vector, converged, after at most one iteration, whatever the
\* initial price vector.
C6_ZeroPoolsConvergeAtZero ==
    (optPc = "returned" /\ optCfmms = <<>>) =>
        /\ optResult.converged
        /\ optResult.iterations <= 1
        /\ \A i \in DOMAIN optResult.v : optResult.v[i] = 0

\* a run without pools that moved a non-zero initial vector of MaxDim prices
C6_Witness ==
    /\ optPc = "returned"
    /\ optCfmms = <<>>
    /\ Len(optResult.v) = MaxDim
    /\ optPushed = 1

(***************************************************************************)
(* Properties of the pairwise detector                                     *)
(***************************************************************************)
HasZeroReserve(m) == pairMarkets[m].reserves[1] = 0 \/ pairMarkets[m].reserves[2] = 0

\* C10: a pool with a zero reserve appears in no opportunity of
\* findArbitrageTrades, and no pass over a pair that holds such a pool makes
\* the call reject.
C10_ZeroReservePoolExcluded ==
    /\ \A k \in DOMAIN pairResult :
          ~HasZeroReserve(pairResult[k].buyFromMarket)
              /\ ~HasZeroReserve(pairResult[k].sellToMarket)
    /\ pairPc = "threw" =>
          ~HasZeroReserve(Head(pairTodo).buy) /\ ~HasZeroReserve(Head(pairTodo).sell)

\* C11: given exactly two pools under one token, both past the filter and
\* priced, the first with the lower reference price, findArbitrageTrades
\* returns exactly one opportunity, with profit > 0, buying from the first
\* pool and selling to the second.
C11_TwoPoolsOneOpportunity ==
    (/\ pairPc \in {"returned", "threw"}
     /\ Len(pairMarkets) = 2
     /\ Len(pairKeys) = 1
     /\ Len(pairRefPrices) = 2
     /\ pairRefPrices[1].marketAddress = 1
     /\ pairRefPrices[2].marketAddress = 2
     /\ pairRefPrices[1].cumulativePrice < pairRefPrices[2].cumulativePrice)
    => /\ pairPc = "returned"
       /\ Len(pairResult) = 1
       /\ pairResult[1].profit > 0
       /\ pairResult[1].buyFromMarket = 1
       /\ pairResult[1].sellToMarket = 2

\* C13: a pool whose WETH balance could not be fetched is dropped by the
\* filter: it gets no reference price and is in no pair the loops visit.
C13_UnfetchedBalanceDropped ==
    /\ \A k \in DOMAIN pairRefPrices :
          ~pairMarkets[pairRefPrices[k].marketAddress].balanceFails
    /\ \A k \in DOMAIN pairTodo :
          ~pairMarkets[pairTodo[k].buy].balanceFails
              /\ ~pairMarkets[pairTodo[k].sell].balanceFails

\* C15: a pool query that fails during volume sizing makes only that pair be
\* skipped: it never makes the call reject.
C15_FailedQuerySkipsPair == pairPc = "threw" => pairError # "query-failed"

\* C12: a second call of findArbitrageTrades on the same pools and
\* configuration settles as the first did, with the same list in the same
\* order.
C12_SecondCallSameList ==
    (pairFirst # <<>> /\ pairPc \in {"returned", "threw"})
    => /\ pairFirst[1].pc = pairPc
       /\ pairFirst[1].result = pairResult

\* C14: when a pool's arbitrage call fails in the initial evaluation or in an
\* iteration of optimize, the run ends with that error and no
\* OptimizationResult is returned
C14_PoolErrorEndsRun ==
    /\ [](optPc = "threw" => optResult = NoResult)
    /\ [][(/\ \E k \in DOMAIN optCfmms : optCfmms[k] = NoReserves
           /\ optCfmms' = optCfmms
           /\ \/ optPc = "idle"
              \/ /\ optPc = "loop"
                 /\ optIteration < optOptions.maxIterations
                 /\ ~optConverged)
          => (optPc' = "threw" /\ optResult' = NoResult)]_vars

C14_Witness ==
    /\ optPc = "threw"
    /\ optIteration > 0
    /\ \E k \in DOMAIN optCfmms : optCfmms[k] = NoReserves
    /\ optResult = NoResult

\* C16: a result with converged = false is used as a best-effort result:
\* evaluateMarkets derives its opportunities from a non-converged result
\* whose dual value exceeds minProfitThreshold
C16_NonConvergedConsumed ==
    (/\ evalPc = "returned"
     /\ optPc = "returned"
     /\ ~optResult.converged
     /\ Len(optResult.v) = Len(optCfmms)
     /\ evalThreshold # Undefined
     /\ optResult.dualValue > evalThreshold[1])
    => /\ evalConverted
       /\ evalOpportunities = convertOptimizationResult(optResult, optCfmms, evalThreshold)

\* C17: the list a detector returns is sorted by non-increasing profit:
\* findArbitrageTrades by profit, findArbitrageOpportunities by expectedProfit
C17_ReturnedListsSorted ==
    /\ hopPc = "done" =>
          \A i \in 1..(Len(hopResult) - 1) :
              hopResult[i].expectedProfit >= hopResult[i + 1].expectedProfit
    /\ pairPc = "returned" =>
          \A i \in 1..(Len(pairResult) - 1) :
              pairResult[i].profit >= pairResult[i + 1].profit

C17_Witness ==
    /\ hopPc = "done"
    /\ Len(hopResult) = 2
    /\ hopResult # opportunities
    /\ hopResult[1].expectedProfit > hopResult[2].expectedProfit
    /\ pairPc = "returned"
    /\ Len(pairResult) = 3
    /\ pairResult # crossedMarkets
    /\ pairResult[1].profit > pairResult[3].profit

\* the amount that comes back along a cycle: each pool's quote on the output
\* of the hop before, the first hop on the initial amount, less the fee
RECURSIVE PathAmount(_, _, _)
PathAmount(c, k, amount) ==
    IF k > Len(c.markets) THEN amount
    ELSE LET out == EdgeOutput(c.markets[k], c.tokens[k], c.tokens[k + 1], k - 1, amount)
         IN  IF ~out.ok THEN 0 ELSE PathAmount(c, k + 1, out.val)

\* C18: every recorded cycle has expectedProfit = accumulated output amount
\* minus the initial amount, and expectedProfit > 0; a cycle whose accumulated
\* amount is at most the initial amount is not recorded
C18_RecordedProfitPositive ==
    /\ [](\A c \in Cycles :
            /\ c.expectedProfit = PathAmount(c, 1, 0) - InitialAmount
            /\ c.expectedProfit > 0)
    /\ [][(/\ hopPc = "call"
           /\ Top.depth > 0
           /\ Top.token = targetToken
           /\ Top.amount <= InitialAmount)
          => opportunities' = opportunities]_vars

\* C18 witness: with a cycle recorded, the search closes a cycle that brings
\* back less than the initial amount
C18_Witness ==
    /\ hopPc = "call"
    /\ Top.depth > 0
    /\ Top.token = targetToken
    /\ Top.amount <= InitialAmount
    /\ Len(opportunities) >= 1

\* C19: once maxPaths opportunities are recorded the search records no
\* further one: never more than maxPaths cycles are recorded or returned
C19_AtMostMaxPaths ==
    /\ Len(opportunities) <= maxPaths
    /\ hopPc = "done" => Len(hopResult) <= maxPaths

(***************************************************************************)
(* Properties of the bundle execution                                      *)
(***************************************************************************)
\* C20: the bundle is sent to the relay only after the simulation of the
\* same attempt succeeded with a profit strictly above minProfitThreshold;
\* there are at most MAX_RETRIES attempts, each one simulation followed by at
\* most one submission; and when every attempt failed the last error is raised
C20_SimulateThenSubmit ==
    /\ \A k \in 1..Len(bundleLog) :
          /\ bundleMaxRetries # Undefined
          /\ bundleLog[k].attempt < bundleMaxRetries[1]
          /\ bundleLog[k].call = "sendBundle" =>
                /\ k > 1
                /\ bundleLog[k - 1].call = "simulate"
                /\ bundleLog[k - 1].attempt = bundleLog[k].attempt
                /\ bundleLog[k - 1].ok
                /\ bundleThreshold # Undefined
                /\ bundleLog[k - 1].profit > bundleThreshold[1]
          /\ \A j \in 1..(k - 1) :
                bundleLog[j].call = bundleLog[k].call
                    => bundleLog[j].attempt < bundleLog[k].attempt
    /\ bundlePc = "threw" =>
          /\ bundleLog # <<>>
          /\ bundleLog[Len(bundleLog)].attempt = bundleMaxRetries[1] - 1
          /\ ~bundleLog[Len(bundleLog)].ok
          /\ bundleError = bundleLog[Len(bundleLog)].err
    /\ (bundlePc = "returned" /\ bundleResponse = Null) => bundleLog = <<>>

\* C20 witness: every attempt failed, one of them after its bundle was sent,
\* and the error of the last attempt is raised
C20_Witness ==
    /\ bundlePc = "threw"
    /\ bundleMaxRetries # Undefined
    /\ bundleMaxRetries[1] >= 2
    /\ \E k \in 1..Len(bundleLog) :
          bundleLog[k].call = "sendBundle" /\ bundleLog[k].attempt = 0
    /\ bundleLog[Len(bundleLog)].call = "simulate"

(***************************************************************************)
(* Properties of the configuration                                         *)
(***************************************************************************)
\* C21: with a non-positive maxIterations, tolerance or memory the
\* construction fails, so no optimization run is started with such options
C21_BadOptionsNeverRun ==
    (\/ optOptions.maxIterations <= 0
     \/ optOptions.toleranceWei <= 0
     \/ optOptions.memory <= 0)
    => optPc = "idle"

NextMarket == MarketsByToken(Top.token)[Top.idx]
NextOther ==
    IF hopMarkets[NextMarket].tokens[1] = Top.token THEN hopMarkets[NextMarket].tokens[2]
    ELSE hopMarkets[NextMarket].tokens[1]
NextOut == EdgeOutput(NextMarket, Top.token, NextOther, Top.depth, Top.amount)
EdgeYieldsNothing ==
    /\ hopPc = "loop"
    /\ Top.idx <= Len(MarketsByToken(Top.token))
    /\ ~SkipVisited(NextOther, Top.depth)
    /\ (~NextOut.ok \/ NextOut.val <= 0)

\* C23: a quote that throws or is not positive makes only its edge be
\* skipped: nothing is pushed, the loop goes on with the next pool of the
\* token, and the search does not end with that error
C23_FailedEdgeSkipped ==
    /\ [][EdgeYieldsNothing =>
            /\ stack' = [stack EXCEPT ![Len(stack)].idx = Top.idx + 1]
            /\ hopPc' = "loop"
            /\ UNCHANGED <<visited, currentPath, tokenPath, opportunities>>]_vars
    /\ [](hopPc = "failed" =>
            \E i, j \in 1..Len(opportunities) :
                ComparatorThrows(opportunities[i], opportunities[j]))

\* C23 witness: the first pool of the start token throws and the search has
\* returned a cycle through later pools
C23_Witness ==
    /\ hopPc = "done"
    /\ hopFailing = 1
    /\ "WETH" \in SeqToSet(hopMarkets[1].tokens)
    /\ hopResult # <<>>

\* the flash-loan fee on an amount: amount * feeBps / 10000, integer division
FlashLoanFee(amount) == TDiv(amount * FLASH_LOAN_FEE_BPS, 10000)

\* the plain quote of hop k of a cycle on amountIn (0 when the pool throws)
HopQuote(c, k, amountIn) ==
    LET q == getTokensOut(c.markets[k], c.tokens[k], c.tokens[k + 1], amountIn)
    IN  IF q.ok THEN q.val ELSE 0

\* what a cycle brings back when the fee is taken from the first hop only
RECURSIVE FeeOnceAmount(_, _)
FeeOnceAmount(c, k) ==
    IF k = 1
    THEN HopQuote(c, 1, InitialAmount) - FlashLoanFee(HopQuote(c, 1, InitialAmount))
    ELSE HopQuote(c, k, FeeOnceAmount(c, k - 1))

\* C24: the flash-loan fee is deducted from the output of the first hop and of
\* no later hop: the amount of every open activation and the profit of every
\* recorded cycle carry the fee exactly once
C24_FeeOnFirstHopOnly ==
    /\ \A c \in Cycles :
          c.expectedProfit = FeeOnceAmount(c, Len(c.markets)) - InitialAmount
    /\ \A k \in 2..Len(stack) :
          LET edge == [markets |-> <<currentPath[k - 1]>>,
                       tokens |-> <<stack[k - 1].token, stack[k].token>>]
          IN  stack[k].amount =
                IF k = 2
                THEN HopQuote(edge, 1, InitialAmount)
                        - FlashLoanFee(HopQuote(edge, 1, InitialAmount))
                ELSE HopQuote(edge, 1, stack[k - 1].amount)

\* C24 witness: a returned cycle whose first hop pays a fee and whose later
\* hop yields enough for a fee to show
C24_Witness ==
    /\ hopPc = "done"
    /\ \E c \in SeqToSet(hopResult) :
          /\ FlashLoanFee(HopQuote(c, 1, InitialAmount)) > 0
          /\ FlashLoanFee(c.expectedProfit + InitialAmount) > 0

(***************************************************************************)
(* Properties of the dual objective                                        *)
(***************************************************************************)
\* the sum over the pools k.. of the value of their arbitrage call at v
RECURSIVE SumPoolValues(_, _, _)
SumPoolValues(cfmms, v, k) ==
    IF k > Len(cfmms) THEN 0
    ELSE arbitrage(cfmms[k], v).val.value + SumPoolValues(cfmms, v, k + 1)

\* the sum over the pools k.. of component i of their delta at v
RECURSIVE SumPoolDeltas(_, _, _, _)
SumPoolDeltas(cfmms, v, k, i) ==
    IF k > Len(cfmms) THEN 0
    ELSE LET delta == arbitrage(cfmms[k], v).val.delta
         IN  (IF i <= Len(delta) THEN delta[i] ELSE 0) + SumPoolDeltas(cfmms, v, k + 1, i)

\* C25: for any number of pools and a price vector with one coordinate per
\* pool, the evaluation succeeds when every pool's arbitrage call succeeds,
\* with value = U*(v) + the sum of the pool values and gradient component i =
\* utility gradient i + the sum of the pools' delta components i
C25_DualObjectiveSums ==
    (/\ dualOut # <<>>
     /\ Len(dualV) = Len(dualCfmms)
     /\ \A k \in 1..Len(dualCfmms) : arbitrage(dualCfmms[k], dualV).ok)
    => /\ dualOut[1].ok
       /\ dualOut[1].val.value
            = U_optimal(dualV).value + SumPoolValues(dualCfmms, dualV, 1)
       /\ Len(dualOut[1].val.gradient) = Len(dualV)
       /\ \A i \in 1..Len(dualV) :
             dualOut[1].val.gradient[i]
                = U_optimal(dualV).gradient[i] + SumPoolDeltas(dualCfmms, dualV, 1, i)

(***************************************************************************)
(* Exit of the optimizer loop                                              *)
(***************************************************************************)
\* a step that stays in the loop with the same pools is a pass made below the
\* cap and without convergence, and adds one to the iteration count; a run
\* that returned or rejected stays so
LoopPassCounts ==
    /\ (optPc = "loop" /\ optPc' = "loop" /\ optCfmms' = optCfmms)
         => (/\ optIteration < optOptions.maxIterations
             /\ ~optConverged
             /\ optIteration' = optIteration + 1)
    /\ (optPc \in {"returned", "threw"}) => (optPc' = optPc)

\* C26: optimize leaves its loop on convergence or at the iteration cap. The
\* loop ends: each pass that stays in the loop adds one to the iteration
\* count, which never exceeds maxIterations, and a pass is made only below
\* the cap and without convergence. A returned run has iterations <=
\* maxIterations, has converged when iterations < maxIterations, and reports
\* converged exactly when the squared norm of the gradient at the returned
\* point is below the square of the tolerance
C26_ExitOnConvergenceOrCap ==
    /\ [](optPc \in {"loop", "returned", "threw"} =>
            optIteration <= optOptions.maxIterations)
    /\ [](optPc = "returned" =>
            /\ optResult.iterations = optIteration
            /\ (optResult.iterations < optOptions.maxIterations => optResult.converged)
            /\ optResult.v = optV
            /\ optResult.converged
                 <=> (SumSeq([i \in DOMAIN optGrad |-> optGrad[i] * optGrad[i]])
                        < optOptions.toleranceWei * optOptions.toleranceWei))
    /\ [][LoopPassCounts]_vars

(***************************************************************************)
(* Properties of the bounds search                                         *)
(***************************************************************************)
\* C27: in findActiveInterval a failed evaluation at a midpoint is not
\* propagated and has the effect of a non-negative objective value at that
\* midpoint: after either, the upper end is the midpoint and the lower end is
\* where it was; the search returns lower = 0 and, for each coordinate,
\* upper = twice the bound its search found
C27_FailureActsAsNonNegative ==
    /\ searchPc \in {"idle", "search", "returned"}
    /\ (\/ searchLast.outcome = "threw"
        \/ (searchLast.outcome = "value" /\ searchLast.value >= 0))
       => (searchLast.right = searchLast.mid /\ searchLast.left < searchLast.mid)
    /\ searchPc = "returned" =>
          /\ \A i \in DOMAIN searchV : searchLower[i] = 0
          /\ \A i \in DOMAIN searchV : searchUpper[i] = Bisect(searchCfmms, searchV, i, 0, MaxUint) * 2

(***************************************************************************)
(* Properties of the two-loop recursion and of the memory                  *)
(***************************************************************************)
\* the scale factor s.y / y.y of one stored pair
PairScale(pair) == TDiv(Dot(pair.s, pair.y), Dot(pair.y, pair.y))

\* C28: for every memory with at least one pair, lbfgsbStep scales the
\* direction left by the first loop with the pair accepted last
C28_ScaledByMostRecentPair ==
    (optPc = "loop" /\ Len(optMemory) >= 1) =>
        LET q == FirstLoop(optMemory, Len(optMemory), optGrad,
                           [i \in 1..Len(optMemory) |-> 0]).q
            mostRecent == optMemory[Len(optMemory)]
        IN  ScaleByPair(optMemory, q) = [i \in DOMAIN q |-> q[i] * PairScale(mostRecent)]

\* what a pass of the loop does to the memory, given the point and the
\* gradient before and after it
PassKeepsCurvatureRule ==
    (optPc = "loop" /\ optIteration' = optIteration + 1) =>
        LET s == [i \in DOMAIN optV |-> optV'[i] - optV[i]]
            y == [i \in DOMAIN optGrad |-> optGrad'[i] - optGrad[i]]
            lists == UpdateLists(MemoryLists(optMemory), s, y, optOptions.memory)
        IN  /\ Dot(y, s) <= 0 => optMemory' = optMemory
            /\ optMemory' # optMemory =>
                  /\ Dot(y, s) > 0
                  /\ optMemory'[Len(optMemory')].s = s
                  /\ optMemory'[Len(optMemory')].y = y
            /\ Len(lists.s) = Len(lists.y) /\ Len(lists.y) = Len(lists.rho)
            /\ MemoryLists(optMemory') = lists

\* C29: after a step of the optimizer the pair (s, y) of the step is
\* appended to the memory only if y.s > 0, and with y.s <= 0 the memory is
\* left as it was; the lists s, y and rho of the memory have the same length
\* after every pass
C29_PairAcceptedOnCurvature == [][PassKeepsCurvatureRule]_vars

\* a run in which one pass had its pair accepted and another had it refused
C29_Witness ==
    /\ optPc = "loop"
    /\ optPushed >= 1
    /\ optIteration > optPushed
    /\ Len(optMemory) >= 1

\* the last n entries of a list, in the order of the list
LastN(list, n) == SubSeq(list, Len(list) - n + 1, Len(list))

WithinBounds(v, bounds) ==
    /\ Len(bounds.lower) = Len(v)
    /\ Len(bounds.upper) = Len(v)
    /\ \A i \in DOMAIN v : bounds.lower[i] <= v[i] /\ v[i] <= bounds.upper[i]

\* a step of a run past its bounds search leaves the bounds as they are
BoundsKept == (optPc \in {"loop", "returned", "threw"}) => (optBounds' = optBounds)

\* C31: every point an optimizer step produced, and so the returned v after
\* at least one iteration, lies within [lower, upper] in every coordinate, and
\* no iteration changes the bounds computed at the start of the run
C31_PointsWithinBounds ==
    /\ [](optIteration >= 1 => WithinBounds(optV, optBounds))
    /\ []((optPc = "returned" /\ optResult.iterations >= 1)
            => WithinBounds(optResult.v, optBounds))
    /\ [][BoundsKept]_vars

\* a step that the projection stopped at the upper bound of a coordinate,
\* in a run with pools
C31_Witness ==
    /\ optIteration >= 1
    /\ optCfmms # <<>>
    /\ \E i \in DOMAIN optV : optV[i] = optBounds.upper[i]

(***************************************************************************)
(* Properties of calculateOptimalVolume                                    *)
(***************************************************************************)
\* the expected net profit of a trade size: profit * size less both price
\* impacts and both trading fees times size
ExpectedNetProfit(size) ==
    volumeArgs.profit * size - volumeArgs.cost * size - volumeArgs.cost * size
        - volumeArgs.cost * size - volumeArgs.cost * size

\* the sizes of the range whose expected profit meets minProfitThreshold
SizesMeetingThreshold ==
    {size \in 1..MaxTradeSize : ExpectedNetProfit(size) >= volumeArgs.threshold[1]}

\* C32: the search of calculateOptimalVolume ends and, before the clamp,
\* gives a size in [1, maxTradeSize] of greatest expected net profit among
\* the sizes whose expected profit meets minProfitThreshold, or 0 when no
\* size meets it
C32_SearchFindsBestSize ==
    (volumePc = "searched" /\ volumeArgs.threshold # Undefined) =>
        IF SizesMeetingThreshold = {}
        THEN volumeFound = 0
        ELSE /\ volumeFound \in SizesMeetingThreshold
             /\ \A size \in SizesMeetingThreshold :
                    ExpectedNetProfit(volumeFound) >= ExpectedNetProfit(size)

\* C33: the volume calculateOptimalVolume returns is the least of the size
\* the search found and the liquidity of the token in the buy pool and in the
\* sell pool, so it exceeds none of the three
C33_VolumeClampedToLiquidity ==
    volumePc = "returned" =>
        /\ volumeOut <= volumeFound
        /\ volumeOut <= volumeArgs.availableLiquidityBuy
        /\ volumeOut <= volumeArgs.availableLiquiditySell
        /\ volumeOut \in {volumeFound, volumeArgs.availableLiquidityBuy,
                          volumeArgs.availableLiquiditySell}

\* a call whose volume is the liquidity of the sell pool, below both the size
\* found and the liquidity of the buy pool
C33_Witness ==
    /\ volumePc = "returned"
    /\ volumeOut = volumeArgs.availableLiquiditySell
    /\ volumeOut < volumeFound
    /\ volumeOut < volumeArgs.availableLiquidityBuy
    /\ volumeOut > 0

(***************************************************************************)
(* Reserves read during a run                                              *)
(***************************************************************************)
\* every pool of the list gave an array of reserves
AllReservesRead(cfmms) == \A k \in DOMAIN cfmms : cfmms[k] # NoReserves

\* C34: within one run of the optimizer every evaluation of the dual
\* objective reads the same reserves of each pool, also when the reserves are
\* updated while the run is under way
C34_OneSnapshotPerRun ==
    \A seen1 \in optSeen : \A seen2 \in optSeen :
        (AllReservesRead(seen1) /\ AllReservesRead(seen2)) => seen1 = seen2

\* C35: no cycle recorded or returned by the multi-hop search goes through
\* the same pool on two of its hops
C35_NoPoolTwiceInCycle ==
    \A c \in Cycles :
        \A i \in 1..Len(c.markets) : \A j \in 1..Len(c.markets) :
            i # j => c.markets[i] # c.markets[j]

\* the search stands on the start token after going out and back through the
\* same pool, with a cycle already recorded
C35_Witness ==
    /\ hopPc = "call"
    /\ Top.depth = 2
    /\ Top.token = targetToken
    /\ currentPath[1] = currentPath[2]
    /\ opportunities # <<>>

(***************************************************************************)
(* Further properties of the pairwise detector                             *)
(***************************************************************************)
\* C36: every opportunity findArbitrageTrades returns has volume > 0: a pair
\* for which calculateOptimalVolume gives 0 is not emitted
C36_ReturnedVolumePositive ==
    pairPc = "returned" => \A i \in 1..Len(pairResult) : pairResult[i].volume > 0

\* C37: pairwise detection does not depend on the order of the pools in a
\* token's list: for two filtered pools with different reference prices a call
\* that returns gives exactly one opportunity, buying from the lower-priced
\* pool and selling to the higher-priced one, whichever comes first
C37_OrderOfPoolsIrrelevant ==
    (/\ pairPc = "returned"
     /\ Len(pairMarkets) = 2
     /\ Len(pairKeys) = 1
     /\ Len(pairRefPrices) = 2
     /\ pairRefPrices[1].marketAddress # pairRefPrices[2].marketAddress
     /\ pairRefPrices[1].cumulativePrice # pairRefPrices[2].cumulativePrice)
    => LET lower == IF pairRefPrices[1].cumulativePrice < pairRefPrices[2].cumulativePrice
                    THEN pairRefPrices[1].marketAddress
                    ELSE pairRefPrices[2].marketAddress
           higher == IF lower = pairRefPrices[1].marketAddress
                     THEN pairRefPrices[2].marketAddress
                     ELSE pairRefPrices[1].marketAddress
       IN  /\ Len(pairResult) = 1
           /\ pairResult[1].buyFromMarket = lower
           /\ pairResult[1].sellToMarket = higher

(***************************************************************************)
(* Reconnection, balance fetching and execution attempts                   *)
(***************************************************************************)
\* a handler that opens a socket leaves the attempt counter at 0
OpenResetsCounter ==
    \A s \in 1..Len(connSockets) :
        (connSockets[s].state = "connecting" /\ connSockets'[s].state = "open")
            => reconnectAttempts' = 0

\* C38: the websocket manager exits the process only after
\* MAX_RECONNECT_ATTEMPTS consecutive reconnection attempts have each failed
\* without a successful open in between; every connection failure schedules
\* exactly one reconnection; a successful open resets the attempt counter
C38_ExitAfterFiveFailedReconnects ==
    /\ [](connExited => connFailed >= MAX_RECONNECT_ATTEMPTS)
    /\ [](\A s \in 1..Len(connSockets) :
            /\ connSockets[s].scheduled <= 1
            /\ (connSockets[s].state = "closed" /\ ~connExited)
                  => connSockets[s].scheduled = 1)
    /\ [][OpenResetsCounter]_vars

\* the attempts up to `retries` whose balanceOf call resolves
SucceedingAttempts == {k \in 1..fetchRetries : fetchOutcomes[k] # Null}

\* C39: fetchWETHBalance makes at most `retries` balance calls, returns the
\* first successful balance without making further calls, and returns null
\* (it does not throw) when every attempt fails
C39_FirstBalanceOrNull ==
    /\ fetchCalls <= fetchRetries
    /\ fetchPc = "returned" =>
          IF SucceedingAttempts # {}
          THEN LET first == CHOOSE k \in SucceedingAttempts :
                                \A l \in SucceedingAttempts : k <= l
               IN  /\ fetchResult = fetchOutcomes[first]
                   /\ fetchCalls = first
          ELSE /\ fetchResult = Null
               /\ fetchCalls = fetchRetries

\* the second of three allowed calls gave the balance and the third was not made
C39_Witness ==
    /\ fetchPc = "returned"
    /\ fetchRetries = 3
    /\ fetchOutcomes[1] = Null
    /\ fetchResult # Null
    /\ fetchCalls = 2
    /\ fetchOutcomes[3] # Null

\* C40: in takeCrossedMarkets each opportunity gets at most maxAttempts
\* execution attempts; once executeArbitrageTrade has returned a transaction
\* for an opportunity, no further execution attempt is made for it; and the
\* failure of all attempts for one opportunity does not keep the following
\* opportunities from being attempted
C40_AttemptsPerOpportunity ==
    /\ \A m \in 1..takeMarkets : takeCalls[m] <= takeMaxAttempts
    /\ takeAgain = {}
    /\ (takePc = "done" /\ takeMaxAttempts >= 1) => \A m \in 1..takeMarkets : takeCalls[m] >= 1

====
